---------------------------- MODULE Spec2Model ----------------------------
(***************************************************************************)
(* Model of App/PropertyLinks.cpp (FreeCAD): the link property family,     *)
(* the backlinks they maintain on their targets, the label and element     *)
(* registries, the copy-on-change transforms and the external document     *)
(* descriptors (DocInfo).                                                  *)
(*                                                                         *)
(* Strings are sequences of one-character strings, so that strchr, strstr, *)
(* std::string::replace and operator+ are computed as the code does.       *)
(***************************************************************************)
EXTENDS Integers, Sequences, FiniteSets, TLC

NULL == "null"

\* no descriptor (an empty DocInfoPtr); a descriptor is named by its path
NoInfo == <<>>

\* Bounds of the model.
MaxLen == 2
MaxSubs == 1
MaxSegs == 1

--------------------------------------------------------------------------
\* Character strings

\* std::string::find(char, from) / strchr: the first position >= from
\* holding c, 0 when there is none (positions are 1-based here).
RECURSIVE FindChar(_, _, _)
FindChar(s, c, from) ==
    IF from > Len(s) THEN 0
    ELSE IF s[from] = c THEN from
    ELSE FindChar(s, c, from + 1)

IsPrefixAt(s, pat, pos) ==
    /\ pos + Len(pat) - 1 <= Len(s)
    /\ \A i \in 1..Len(pat) : s[pos + i - 1] = pat[i]

\* strstr / std::string::find(str, from): first position >= from where pat
\* occurs, 0 when there is none.
RECURSIVE Find(_, _, _)
Find(s, pat, from) ==
    IF from + Len(pat) - 1 > Len(s) THEN 0
    ELSE IF IsPrefixAt(s, pat, from) THEN from
    ELSE Find(s, pat, from + 1)

\* std::string::replace(pos, len, r)
Replace(s, pos, len, r) ==
    SubSeq(s, 1, pos - 1) \o r \o SubSeq(s, pos + len, Len(s))

\* the tail of s starting at pos
Tail0(s, pos) == SubSeq(s, pos, Len(s))

RECURSIVE SeqToSet(_)
SeqToSet(s) == IF s = <<>> THEN {} ELSE {Head(s)} \cup SeqToSet(Tail(s))

SeqsUpTo(S, n) == UNION {[1..k -> S] : k \in 0..n}

--------------------------------------------------------------------------
\* The documents and their objects.  An object is identified by its
\* one-character internal name; labels are user strings and need not be
\* unique.  A and E own the properties; B, C and D are link targets; B
\* and C carry the same label.

Objects == {"A", "B", "C", "D", "E", "X", "Y", "U"}

\* A..E live in the document M, which is always open and saved as /m; X
\* and Y live in the external document Ext, saved as /p.
Docs == {"M", "Ext"}

getDocument(o) == IF o \in {"X", "Y"} THEN "Ext" ELSE "M"

\* U has been removed from M: it has no name in a document any more, and
\* still points to the document it was in
isAttachedToDocument(o) == o # "U"

\* Document::getFileName
getFileName(d) == IF d = "M" THEN <<"/", "m">> ELSE <<"/", "p">>

Label(o) ==
    CASE o = "A" -> <<"a">>
      [] o = "B" -> <<"x">>
      [] o = "C" -> <<"x">>
      [] o = "D" -> <<"d">>
      [] o = "E" -> <<"e">>
      [] o = "X" -> <<"x">>
      [] OTHER   -> <<"y">>

\* The hierarchy DocumentObject::getSubObject walks, which is the out-list
\* of each object: A holds B, B holds C, D holds C, X holds Y, and C
\* refers back to B, so that a path may pass an object more than once.
Children(o) ==
    CASE o = "A" -> {"B"}
      [] o = "B" -> {"C"}
      [] o = "C" -> {"B"}
      [] o = "D" -> {"C"}
      [] o = "X" -> {"Y"}
      [] OTHER   -> {}

NameOf(o) == <<o>>

\* One path segment (without its dot) resolved among the children of obj:
\* "$label" selects by label, anything else by internal name.
ResolveChild(obj, seg) ==
    LET hits == IF seg # <<>> /\ seg[1] = "$"
                THEN {c \in Children(obj) : Label(c) = Tail(seg)}
                ELSE {c \in Children(obj) : NameOf(c) = seg}
    IN IF hits = {} THEN NULL ELSE CHOOSE c \in hits : TRUE

\* DocumentObject::getSubObject(subname): walk the dot-terminated segments
\* from obj; what follows the last dot is an element name and is ignored.
RECURSIVE getSubObject(_, _)
getSubObject(obj, sub) ==
    IF obj = NULL THEN NULL
    ELSE LET dot == FindChar(sub, ".", 1)
         IN IF dot = 0 THEN obj
            ELSE LET child == ResolveChild(obj, SubSeq(sub, 1, dot - 1))
                 IN IF child = NULL THEN NULL
                    ELSE getSubObject(child, Tail0(sub, dot + 1))

--------------------------------------------------------------------------
\* The properties.  Every property has a fixed class, scope and container.

LinkIds == {"Link", "LinkHidden"}
ListIds == {"List"}
SubIds == {"Sub"}
SubListIds == {"SubList"}
XLinkIds == {"XLink", "XLinkHidden"}
\* one PropertyXLinkContainer and the child links it creates, one for each
\* object of the external document
ContainerIds == {"XC"}
ChildOf(o) == IF o = "X" THEN "XC_X" ELSE "XC_Y"
ChildIds == {"XC_X", "XC_Y"}
\* one PropertyXLinkSubList and the links of its list _Links, at most one
\* for each object it may link
XSubListIds == {"XSubList"}
XSubChildOf(o) ==
    CASE o = "A" -> "XS_A"
      [] o = "B" -> "XS_B"
      [] o = "X" -> "XS_X"
      [] OTHER   -> "XS_D"
XSubChildIds == {"XS_A", "XS_B", "XS_X", "XS_D"}
PropIds == LinkIds \cup ListIds \cup SubIds \cup SubListIds \cup XLinkIds
           \cup ContainerIds \cup ChildIds \cup XSubListIds \cup XSubChildIds

Scope(p) ==
    CASE p \in {"LinkHidden", "XLinkHidden"} -> "Hidden"
      [] p \in {"XLink"} \cup ContainerIds \cup ChildIds -> "Global"
      [] p \in XSubListIds \cup XSubChildIds -> "Global"
      [] OTHER -> "Local"

getContainer(p) ==
    IF p \in SubListIds \cup {"XLinkHidden"} \cup XSubListIds \cup XSubChildIds
    THEN "E" ELSE "A"

VARIABLES
    props,          \* the value held by each property
    alive,          \* the properties not yet destructed
    backLinks,      \* DocumentObject::_inList of each object
    destroy,        \* the objects with ObjectStatus::Destroy set
    LabelMap,       \* _LabelMap, as pairs <<label, property>>
    ElementRefMap,  \* _ElementRefMap, as pairs <<object, property>>
    openDocs,       \* the documents that are open
    DocInfoMap,     \* _DocInfoMap: full path -> [pcDoc, links, myPath]
    pending,        \* Application::addPendingDocument requests
    result,         \* what the last operation returned, and whether it threw
    call            \* the last CopyOn... call: its arguments and its copies

vars == <<props, alive, backLinks, destroy, LabelMap, ElementRefMap,
          openDocs, DocInfoMap, pending, result, call>>

\* DocumentObject::_addBackLink / _removeBackLink
addBackLink(bl, obj, parent) == [bl EXCEPT ![obj] = @ \cup {parent}]

removeBackLink(bl, obj, parent) == [bl EXCEPT ![obj] = @ \ {parent}]

RECURSIVE removeBackLinks(_, _, _)
removeBackLinks(bl, objs, parent) ==
    IF objs = <<>> THEN bl
    ELSE removeBackLinks(
             IF Head(objs) = NULL THEN bl
             ELSE removeBackLink(bl, Head(objs), parent),
             Tail(objs), parent)

RECURSIVE addBackLinks(_, _, _)
addBackLinks(bl, objs, parent) ==
    IF objs = <<>> THEN bl
    ELSE addBackLinks(
             IF Head(objs) = NULL THEN bl
             ELSE addBackLink(bl, Head(objs), parent),
             Tail(objs), parent)

testStatusDestroy(o) == o \in destroy

\* no CopyOn... call has been made since the last mutation
NoCall == [op |-> "none"]

InitProp(p) ==
    CASE p \in LinkIds -> [pcLink |-> NULL]
      [] p \in ListIds -> [lValueList |-> <<>>, nameMap |-> {}]
      [] p \in SubIds  -> [pcLinkSub |-> NULL, cSubList |-> <<>>,
                           ShadowSubList |-> <<>>,
                           LabelRefs |-> {}, ElementRefs |-> {}]
      [] p \in ContainerIds -> [Deps |-> <<>>, XLinks |-> {},
                                LabelRefs |-> {}, ElementRefs |-> {}]
      [] p \in ChildIds -> [pcLink |-> NULL, SubList |-> <<>>,
                            ShadowSubList |-> <<>>,
                            LabelRefs |-> {}, ElementRefs |-> {},
                            docInfo |-> NoInfo, objectName |-> <<>>,
                            filePath |-> <<>>, LinkDetached |-> FALSE,
                            scope |-> "Global"]
      [] p \in XSubListIds -> [Links |-> <<>>,
                               LabelRefs |-> {}, ElementRefs |-> {}]
      [] p \in XLinkIds \cup XSubChildIds ->
                           [pcLink |-> NULL, SubList |-> <<>>,
                            ShadowSubList |-> <<>>,
                            LabelRefs |-> {}, ElementRefs |-> {},
                            docInfo |-> NoInfo, objectName |-> <<>>,
                            filePath |-> <<>>, LinkDetached |-> FALSE]
      [] OTHER         -> [lValueList |-> <<>>, lSubList |-> <<>>,
                           ShadowSubList |-> <<>>,
                           LabelRefs |-> {}, ElementRefs |-> {}]

Init ==
    /\ props = [p \in PropIds |-> InitProp(p)]
    /\ alive = PropIds \ (ChildIds \cup XSubChildIds)
    /\ backLinks = [o \in Objects |-> {}]
    /\ destroy = {}
    /\ LabelMap = {}
    /\ ElementRefMap = {}
    /\ openDocs = {"M"}
    /\ DocInfoMap = <<>>
    /\ pending = {}
    /\ result = [thrown |-> FALSE, ret |-> NULL]
    /\ call = NoCall

--------------------------------------------------------------------------
\* A handler is an operator from the program state S (a record of the
\* variables it may write, with the flag "thrown" and the value "ret") to
\* the state it leaves; Do installs that state as one step.

Cur ==
    [props |-> props, backLinks |-> backLinks, LabelMap |-> LabelMap,
     ElementRefMap |-> ElementRefMap, DocInfoMap |-> DocInfoMap,
     pending |-> pending, thrown |-> FALSE, ret |-> NULL, call |-> NoCall]

Throw(S) == [S EXCEPT !.thrown = TRUE]

Do(R) ==
    /\ props' = R.props
    /\ backLinks' = R.backLinks
    /\ LabelMap' = R.LabelMap
    /\ ElementRefMap' = R.ElementRefMap
    /\ DocInfoMap' = R.DocInfoMap
    /\ pending' = R.pending
    /\ result' = [thrown |-> R.thrown, ret |-> R.ret]
    /\ call' = R.call

\* a destructor: the property is gone once it has run
Destruct(p, R) ==
    /\ Do([R EXCEPT !.props[p] = InitProp(p)])
    /\ alive' = alive \ {p}
    /\ UNCHANGED <<destroy, openDocs>>

\* the guard every link property places around its backlink updates
\* the scope of a link: fixed by its class, except for the child links of
\* a PropertyXLinkContainer, whose scope updateDeps sets
ScopeOf(S, p) == IF p \in ChildIds THEN S.props[p].scope ELSE Scope(p)

MaintainsBackLinks(S, p) ==
    ScopeOf(S, p) # "Hidden" /\ ~testStatusDestroy(getContainer(p))

\* testFlag(LinkAllowExternal): set for the external links only
LinkAllowExternal(p) == p \in XLinkIds \cup ChildIds \cup XSubChildIds

\* !testFlag(LinkAllowExternal) && parent
\*     && parent->getDocument() != obj->getDocument()
External(p, obj) ==
    ~LinkAllowExternal(p) /\ getDocument(getContainer(p)) # getDocument(obj)

--------------------------------------------------------------------------
\* PropertyLink

\* PropertyLink::setValue
Link_setValue(S, p, lValue) ==
    LET parent == getContainer(p)
        old == S.props[p].pcLink
        b1 == IF old # NULL THEN removeBackLink(S.backLinks, old, parent)
              ELSE S.backLinks
        b2 == IF lValue # NULL THEN addBackLink(b1, lValue, parent) ELSE b1
    IN IF lValue # NULL /\ External(p, lValue) THEN Throw(S)
       ELSE [S EXCEPT !.backLinks = IF MaintainsBackLinks(S, p) THEN b2
                                    ELSE @,
                      !.props[p].pcLink = lValue]

\* PropertyLink::resetLink
Link_resetLink(S, p) ==
    LET parent == getContainer(p)
        old == S.props[p].pcLink
    IN [S EXCEPT !.backLinks = IF MaintainsBackLinks(S, p) /\ old # NULL
                               THEN removeBackLink(@, old, parent) ELSE @,
                 !.props[p].pcLink = NULL]

\* PropertyLink::~PropertyLink
Link_destruct(S, p) == Link_resetLink(S, p)

\* PropertyLink::Copy and PropertyLink::Paste
Link_Copy(S, p) == [pcLink |-> S.props[p].pcLink]

Link_Paste(S, p, from) == Link_setValue(S, p, from.pcLink)

\* PropertyLink::breakLink
Link_breakLink(S, p, obj, clear) ==
    IF S.props[p].pcLink = obj \/ (clear /\ getContainer(p) = obj)
    THEN Link_setValue(S, p, NULL)
    ELSE S

--------------------------------------------------------------------------
\* PropertyLinkList

\* PropertyListsT::setValues: install the whole vector
ListsT_setValues(S, p, value) == [S EXCEPT !.props[p].lValueList = value]

\* PropertyLinkList::setSize(int); _nameMap is a set of pairs <<name,
\* index>> with one pair for a name
LinkList_setSize(S, p, newSize) ==
    LET old == S.props[p].lValueList
        cut == SubSeq(old, newSize + 1, Len(old))
        erased == {NameOf(cut[i]) :
                      i \in {j \in 1..Len(cut) :
                                /\ cut[j] # NULL
                                /\ isAttachedToDocument(cut[j])}}
    IN [S EXCEPT !.backLinks = IF Scope(p) # "Hidden"
                               THEN removeBackLinks(@, cut, getContainer(p))
                               ELSE @,
                 !.props[p].nameMap = {e \in @ : e[1] \notin erased},
                 !.props[p].lValueList =
                     [i \in 1..newSize |-> IF i <= Len(old) THEN old[i]
                                           ELSE NULL]]

\* PropertyLinkList::setSize(int, const_reference)
LinkList_setSizeDef(S, p, newSize, def) ==
    LET oldSize == Len(S.props[p].lValueList)
        S1 == LinkList_setSize(S, p, newSize)
    IN [S1 EXCEPT !.props[p].lValueList =
                     [i \in 1..newSize |-> IF i > oldSize THEN def ELSE @[i]]]

\* PropertyListsT::set1Value for idx in -1..size (idx counts from 0; -1
\* and size append)
ListsT_set1Value(S, p, idx, value) ==
    LET size == Len(S.props[p].lValueList)
    IN IF idx = -1 \/ idx = size
       THEN LinkList_setSizeDef(S, p, size + 1, value)
       ELSE [S EXCEPT !.props[p].lValueList[idx + 1] = value]

\* PropertyLinkList::set1Value
LinkList_set1Value(S, p, idx, value) ==
    LET list == S.props[p].lValueList
        parent == getContainer(p)
        obj == IF idx >= 0 /\ idx < Len(list) THEN list[idx + 1] ELSE NULL
        b1 == IF obj # NULL THEN removeBackLink(S.backLinks, obj, parent)
              ELSE S.backLinks
        S1 == [S EXCEPT !.backLinks = IF MaintainsBackLinks(S, p)
                                      THEN addBackLink(b1, value, parent)
                                      ELSE @]
    IN IF idx >= 0 /\ idx < Len(list) /\ obj = value THEN S
       ELSE IF value = NULL \/ ~isAttachedToDocument(value) THEN Throw(S)
       ELSE ListsT_set1Value([S1 EXCEPT !.props[p].nameMap = {}], p, idx,
                             value)

\* PropertyLinkList::setValues
RECURSIVE LinkList_setValues(_, _, _)
LinkList_setValues(S, p, value) ==
    LET parent == getContainer(p)
        b1 == removeBackLinks(S.backLinks, S.props[p].lValueList, parent)
        b2 == addBackLinks(b1, value, parent)
    IN IF value = <<NULL>> THEN LinkList_setValues(S, p, <<>>)
       ELSE IF \E i \in 1..Len(value) :
                   \/ value[i] = NULL
                   \/ ~isAttachedToDocument(value[i])
                   \/ External(p, value[i])
       THEN Throw(S)
       ELSE ListsT_setValues(
                [S EXCEPT !.backLinks = IF MaintainsBackLinks(S, p) THEN b2
                                        ELSE @,
                          !.props[p].nameMap = {}],
                p, value)

\* PropertyLinkList::~PropertyLinkList
LinkList_destruct(S, p) ==
    [S EXCEPT !.backLinks =
        IF MaintainsBackLinks(S, p)
        THEN removeBackLinks(@, S.props[p].lValueList, getContainer(p))
        ELSE @]

\* PropertyLinkList::Copy and PropertyLinkList::Paste
LinkList_Copy(S, p) == [lValueList |-> S.props[p].lValueList]

LinkList_Paste(S, p, from) == LinkList_setValues(S, p, from.lValueList)

\* the elements of s different from obj, in order
RECURSIVE Without(_, _)
Without(s, obj) ==
    IF s = <<>> THEN <<>>
    ELSE IF Head(s) = obj THEN Without(Tail(s), obj)
    ELSE <<Head(s)>> \o Without(Tail(s), obj)

\* PropertyLinkList::breakLink
LinkList_breakLink(S, p, obj, clear) ==
    LET values == Without(S.props[p].lValueList, obj)
    IN IF clear /\ getContainer(p) = obj THEN LinkList_setValues(S, p, <<>>)
       ELSE IF Len(values) # Len(S.props[p].lValueList)
       THEN LinkList_setValues(S, p, values)
       ELSE S

--------------------------------------------------------------------------
\* Label and element registries (PropertyLinkBase)

\* PropertyLinkBase::getLabelReferences: the labels of the "$label."
\* tokens of subname, scanning from position from
RECURSIVE getLabelReferences(_, _)
getLabelReferences(subname, from) ==
    LET d == FindChar(subname, "$", from)
        dot == FindChar(subname, ".", d + 1)
    IN IF d = 0 \/ dot = 0 THEN {}
       ELSE {SubSeq(subname, d + 1, dot - 1)}
                \cup getLabelReferences(subname, dot + 1)

\* PropertyLinkBase::unregisterLabelReferences
unregisterLabelReferences(S, p) ==
    [S EXCEPT !.LabelMap = @ \ {<<l, p>> : l \in S.props[p].LabelRefs},
              !.props[p].LabelRefs = {}]

\* PropertyLinkBase::registerLabelReferences(labels, reset = false)
registerLabelReferences(S, p, labels) ==
    [S EXCEPT !.LabelMap = @ \cup {<<l, p>> : l \in labels},
              !.props[p].LabelRefs = @ \cup labels]

\* PropertyLinkBase::checkLabelReferences(subs, reset = true)
checkLabelReferences(S, p, subs) ==
    registerLabelReferences(
        unregisterLabelReferences(S, p), p,
        UNION {getLabelReferences(subs[i], 1) : i \in 1..Len(subs)})

\* PropertyLinkBase::unregisterElementReference
unregisterElementReference(S, p) ==
    [S EXCEPT !.ElementRefMap = @ \ {<<o, p>> : o \in S.props[p].ElementRefs},
              !.props[p].ElementRefs = {}]

\* PropertyLinkBase::~PropertyLinkBase
LinkBase_destruct(S, p) ==
    unregisterElementReference(unregisterLabelReferences(S, p), p)

EmptyShadow == [newName |-> <<>>, oldName |-> <<>>]

\* the last position of c in s, 0 when there is none (std::string::rfind)
RECURSIVE RFindChar(_, _, _)
RFindChar(s, c, from) ==
    IF from < 1 THEN 0
    ELSE IF s[from] = c THEN from
    ELSE RFindChar(s, c, from - 1)

\* GeoFeature::resolveElement: the object the path of subname leads to
\* (sobj), its element name (what follows the last dot) and the shadow pair
\* of the element.  The objects of the model carry no element map, so that
\* the mapped (new style) name of an element is always empty.
resolvedElement(sobj, subname, element) ==
    [ret |-> sobj, geo |-> sobj, element |-> element,
     elementName |-> IF sobj = NULL \/ element = <<>> THEN EmptyShadow
                     ELSE [newName |-> <<>>, oldName |-> subname]]

resolveElement(obj, subname) ==
    resolvedElement(getSubObject(obj, subname), subname,
        Tail0(subname, RFindChar(subname, ".", Len(subname)) + 1))

\* PropertyLinkBase::_updateElementReference(nullptr, obj, sub, shadow),
\* after resolveElement gave r: the shadow it leaves and the object it
\* registers (NULL for none)
updatedShadow(shadow, r) ==
    IF r.ret = NULL \/ r.geo = NULL \/ r.element = <<>>
    THEN [shadow |-> IF r.elementName.oldName # <<>>
                     THEN [shadow EXCEPT !.oldName = r.elementName.oldName]
                     ELSE shadow,
          geo |-> NULL]
    ELSE IF r.elementName.newName = <<>>
    THEN [shadow |-> [shadow EXCEPT !.oldName = r.elementName.oldName],
          geo |-> r.geo]
    ELSE [shadow |-> r.elementName, geo |-> r.geo]

\* PropertyLinkBase::_updateElementReference(nullptr, obj, sub, shadow)
updateElementReference1(obj, sub, shadow) ==
    IF obj = NULL THEN [shadow |-> shadow, geo |-> NULL]
    ELSE updatedShadow(shadow,
             resolveElement(obj,
                 IF shadow.newName # <<>> THEN shadow.newName
                 ELSE IF shadow.oldName # <<>> THEN shadow.oldName
                 ELSE sub))

\* PropertyLinkBase::_registerElementReference with a mapped name in the
\* shadow, after resolveElement gave r
registeredShadow(shadow, r) ==
    [shadow |-> shadow,
     geo |-> IF r.geo = NULL \/ r.element = <<>> THEN NULL ELSE r.geo]

\* PropertyLinkBase::_registerElementReference
registerElementReference1(obj, sub, shadow) ==
    IF obj = NULL \/ sub = <<>> THEN [shadow |-> shadow, geo |-> NULL]
    ELSE IF shadow.newName = <<>>
    THEN updateElementReference1(obj, sub, shadow)
    ELSE registeredShadow(shadow, resolveElement(obj, sub))

\* install the shadows and the element registrations computed per subname
\* (res[i] is the outcome for subs[i]) after unregisterElementReference
InstallElementRefs(S, p, res) ==
    LET geos == {res[i].geo : i \in 1..Len(res)} \ {NULL}
        S1 == unregisterElementReference(S, p)
    IN [S1 EXCEPT !.props[p].ShadowSubList =
                      [i \in 1..Len(res) |-> res[i].shadow],
                  !.props[p].ElementRefs = geos,
                  !.ElementRefMap = @ \cup {<<o, p>> : o \in geos}]

\* updateLinkReference / PropertyLinkSubList::updateElementReference with
\* feature = nullptr: objs[i] is the target of subs[i]
updateElementReference(S, p, objs, subs) ==
    InstallElementRefs(S, p,
        [i \in 1..Len(subs) |->
            updateElementReference1(objs[i], subs[i], EmptyShadow)])

\* PropertyLinkSub::onContainerRestored /
\* PropertyLinkSubList::onContainerRestored
onContainerRestored(S, p, objs, subs) ==
    LET sh == S.props[p].ShadowSubList
    IN InstallElementRefs(S, p,
           [i \in 1..Len(subs) |->
               registerElementReference1(objs[i], subs[i], sh[i])])

--------------------------------------------------------------------------
\* PropertyLinkSub

Rep(n, x) == [i \in 1..n |-> x]

\* PropertyLinkSub::setValue(lValue, subs, shadows)
LinkSub_setValue(S, p, lValue, subs, shadows) ==
    LET parent == getContainer(p)
        old == S.props[p].pcLinkSub
        b1 == IF old # NULL THEN removeBackLink(S.backLinks, old, parent)
              ELSE S.backLinks
        b2 == IF lValue # NULL THEN addBackLink(b1, lValue, parent) ELSE b1
        S1 == [S EXCEPT !.backLinks = IF MaintainsBackLinks(S, p) THEN b2 ELSE @,
                        !.props[p].pcLinkSub = lValue,
                        !.props[p].cSubList = subs]
        objs == Rep(Len(subs), lValue)
        S2 == IF Len(shadows) = Len(subs)
              THEN onContainerRestored(
                       [S1 EXCEPT !.props[p].ShadowSubList = shadows],
                       p, objs, subs)
              ELSE updateElementReference(S1, p, objs, subs)
    IN IF lValue # NULL
          /\ (~isAttachedToDocument(lValue) \/ External(p, lValue))
       THEN Throw(S)
       ELSE checkLabelReferences(S2, p, subs)

\* PropertyLinkSub::~PropertyLinkSub
LinkSub_destruct(S, p) ==
    LET old == S.props[p].pcLinkSub
    IN LinkBase_destruct(
           [S EXCEPT !.backLinks = IF MaintainsBackLinks(S, p) /\ old # NULL
                                   THEN removeBackLink(@, old, getContainer(p))
                                   ELSE @],
           p)

\* PropertyLinkSub::Copy
LinkSub_Copy(S, p) ==
    [pcLinkSub |-> S.props[p].pcLinkSub, cSubList |-> S.props[p].cSubList,
     ShadowSubList |-> S.props[p].ShadowSubList]

\* PropertyLinkSub::Paste
LinkSub_Paste(S, p, from) ==
    LinkSub_setValue(S, p, from.pcLinkSub, from.cSubList, from.ShadowSubList)

\* PropertyLinkSub::breakLink
LinkSub_breakLink(S, p, obj, clear) ==
    IF obj = S.props[p].pcLinkSub \/ (clear /\ getContainer(p) = obj)
    THEN LinkSub_setValue(S, p, NULL, <<>>, <<>>)
    ELSE S

--------------------------------------------------------------------------
\* PropertyLinkSubList

\* PropertyLinkSubList::setSize
LinkSubList_setSize(S, p, newSize) ==
    LET r == S.props[p]
    IN [S EXCEPT
          !.props[p].lValueList =
              [i \in 1..newSize |-> IF i <= Len(r.lValueList)
                                    THEN r.lValueList[i] ELSE NULL],
          !.props[p].lSubList =
              [i \in 1..newSize |-> IF i <= Len(r.lSubList)
                                    THEN r.lSubList[i] ELSE <<>>],
          !.props[p].ShadowSubList =
              [i \in 1..newSize |-> IF i <= Len(r.ShadowSubList)
                                    THEN r.ShadowSubList[i] ELSE EmptyShadow]]

\* the tail every PropertyLinkSubList setter shares: refresh the shadows
\* and the label registrations of the installed lists
LinkSubList_settle(S, p) ==
    LET r == S.props[p]
    IN checkLabelReferences(
           updateElementReference(S, p, r.lValueList, r.lSubList),
           p, r.lSubList)

\* PropertyLinkSubList::verifyObject: TRUE when it throws
verifyObject(p, obj) ==
    obj # NULL /\ (~isAttachedToDocument(obj) \/ External(p, obj))

\* PropertyLinkSubList::setValue(lValue, const char* SubName)
LinkSubList_setValue1(S, p, lValue, SubName) ==
    LET parent == getContainer(p)
        b1 == removeBackLinks(S.backLinks, S.props[p].lValueList, parent)
        b2 == IF lValue # NULL THEN addBackLink(b1, lValue, parent) ELSE b1
    IN IF verifyObject(p, lValue) THEN Throw(S)
       ELSE LinkSubList_settle(
           [S EXCEPT !.backLinks = IF MaintainsBackLinks(S, p) THEN b2 ELSE @,
                     !.props[p].lValueList =
                         IF lValue # NULL THEN <<lValue>> ELSE <<>>,
                     !.props[p].lSubList =
                         IF lValue # NULL THEN <<SubName>> ELSE <<>>],
           p)

\* PropertyLinkSubList::setValues(lValue&&, lSubNames&&, ShadowSubList&&)
LinkSubList_setValues(S, p, lValue, lSubNames, shadows) ==
    LET parent == getContainer(p)
        b1 == removeBackLinks(S.backLinks, S.props[p].lValueList, parent)
        b2 == addBackLinks(b1, lValue, parent)
        S1 == [S EXCEPT !.backLinks = IF MaintainsBackLinks(S, p) THEN b2 ELSE @,
                        !.props[p].lValueList = lValue,
                        !.props[p].lSubList = lSubNames]
        S2 == IF Len(shadows) = Len(lSubNames)
              THEN onContainerRestored(
                       [S1 EXCEPT !.props[p].ShadowSubList = shadows],
                       p, lValue, lSubNames)
              ELSE updateElementReference(S1, p, lValue, lSubNames)
    IN IF \E i \in 1..Len(lValue) : verifyObject(p, lValue[i]) THEN Throw(S)
       ELSE IF Len(lValue) # Len(lSubNames) THEN Throw(S)
       ELSE checkLabelReferences(S2, p, lSubNames)

\* PropertyLinkSubList::setValue(lValue, const std::vector<std::string>&)
LinkSubList_setValue(S, p, lValue, SubList) ==
    LET parent == getContainer(p)
        size == Len(SubList)
        b1 == removeBackLinks(S.backLinks, S.props[p].lValueList, parent)
        b2 == IF lValue # NULL THEN addBackLink(b1, lValue, parent) ELSE b1
    IN IF verifyObject(p, lValue) THEN Throw(S)
       ELSE LinkSubList_settle(
           [S EXCEPT !.backLinks = IF MaintainsBackLinks(S, p) THEN b2 ELSE @,
                     !.props[p].lValueList =
                         IF size = 0
                         THEN (IF lValue # NULL THEN <<lValue>> ELSE <<>>)
                         ELSE Rep(size, lValue),
                     !.props[p].lSubList =
                         IF size = 0
                         THEN (IF lValue # NULL THEN << <<>> >> ELSE <<>>)
                         ELSE SubList],
           p)

\* the positions of s holding something else than obj
Keep(s, obj) == {i \in 1..Len(s) : s[i] # obj}

\* the subsequence of s at the positions of idx, in order
RECURSIVE Pick(_, _, _)
Pick(s, idx, i) ==
    IF i > Len(s) THEN <<>>
    ELSE (IF i \in idx THEN <<s[i]>> ELSE <<>>) \o Pick(s, idx, i + 1)

\* PropertyLinkSubList::addValue
LinkSubList_addValue(S, p, obj, subs, reset) ==
    LET parent == getContainer(p)
        r == S.props[p]
        size == Len(subs)
        hits == Pick(r.lValueList, (1..Len(r.lValueList)) \ Keep(r.lValueList, obj), 1)
        b1 == IF reset THEN removeBackLinks(S.backLinks, hits, parent)
              ELSE S.backLinks
        b2 == IF obj # NULL THEN addBackLink(b1, obj, parent) ELSE b1
        keep == IF reset THEN Keep(r.lValueList, obj)
                ELSE 1..Len(r.lValueList)
        valueList == Pick(r.lValueList, keep, 1)
        subList == Pick(r.lSubList, keep, 1)
    IN IF verifyObject(p, obj) THEN Throw(S)
       ELSE LinkSubList_settle(
           [S EXCEPT !.backLinks = IF MaintainsBackLinks(S, p) THEN b2 ELSE @,
                     !.props[p].lValueList =
                         IF obj = NULL THEN valueList
                         ELSE IF size = 0 THEN Append(valueList, obj)
                         ELSE valueList \o Rep(size, obj),
                     !.props[p].lSubList =
                         IF obj = NULL THEN subList
                         ELSE IF size = 0 THEN Append(subList, <<>>)
                         ELSE subList \o subs],
           p)

\* PropertyLinkSubList::removeValue
LinkSubList_removeValue(S, p, lValue) ==
    LET r == S.props[p]
        keep == Keep(r.lValueList, lValue)
    IN IF Cardinality(keep) = Len(r.lValueList) THEN S
       ELSE LinkSubList_setValues(S, p, Pick(r.lValueList, keep, 1),
                                  Pick(r.lSubList, keep, 1), <<>>)

\* PropertyLinkSubList::~PropertyLinkSubList
LinkSubList_destruct(S, p) ==
    LinkBase_destruct(
        [S EXCEPT !.backLinks =
            IF MaintainsBackLinks(S, p)
            THEN removeBackLinks(@, S.props[p].lValueList, getContainer(p))
            ELSE @],
        p)

\* PropertyLinkSubList::Copy
LinkSubList_Copy(S, p) ==
    [lValueList |-> S.props[p].lValueList, lSubList |-> S.props[p].lSubList,
     ShadowSubList |-> S.props[p].ShadowSubList]

\* PropertyLinkSubList::Paste
LinkSubList_Paste(S, p, from) ==
    LinkSubList_setValues(S, p, from.lValueList, from.lSubList,
                          from.ShadowSubList)

\* PropertyLinkSubList::breakLink
LinkSubList_breakLink(S, p, obj, clear) ==
    LET r == S.props[p]
        keep == Keep(r.lValueList, obj)
    IN IF clear /\ getContainer(p) = obj
       THEN LinkSubList_setValues(S, p, <<>>, <<>>, <<>>)
       ELSE IF Cardinality(keep) # Len(r.lValueList)
       THEN LinkSubList_setValues(S, p, Pick(r.lValueList, keep, 1),
                                  Pick(r.lSubList, keep, 1), <<>>)
       ELSE S

--------------------------------------------------------------------------
\* External documents: DocInfo and PropertyXLink

\* Document::getObject: the object of that name in an open document
getObject(open, doc, name) ==
    LET hits == {o \in Objects : /\ isAttachedToDocument(o)
                                  /\ getDocument(o) = doc
                                  /\ NameOf(o) = name}
    IN IF doc \notin open \/ hits = {} THEN NULL ELSE CHOOSE o \in hits : TRUE

\* DocInfo::getDocPath for an owner document saved in the directory "/":
\* the absolute path of filename and its path relative to the owner
getDocPath(filename) ==
    LET absolute == filename # <<>> /\ filename[1] = "/"
        full == IF absolute THEN filename ELSE <<"/">> \o filename
    IN [fullPath |-> full, relative |-> Tail(full)]

\* DocInfo::getFullPath(const char*)
getFullPath(path) == path

\* the PropertyLinkBase a child link reports to (none for a free link)
parentProp(p) ==
    IF p \in ChildIds THEN "XC"
    ELSE IF p \in XSubChildIds THEN "XSubList"
    ELSE NULL

\* the shadows and the element registrations computed per subname, added
\* to the registrations the property has
AddElementRefs(S, p, res) ==
    LET geos == {res[i].geo : i \in 1..Len(res)} \ {NULL}
    IN [S EXCEPT !.props[p].ShadowSubList =
                     [i \in 1..Len(res) |-> res[i].shadow],
                 !.props[p].ElementRefs = @ \cup geos,
                 !.ElementRefMap = @ \cup {<<o, p>> : o \in geos}]

\* PropertyXLink::onContainerRestored (it does not unregister first)
XLink_onContainerRestored(S, p) ==
    IF S.props[p].pcLink = NULL THEN S
    ELSE AddElementRefs(S, p,
             [i \in 1..Len(S.props[p].SubList) |->
                 registerElementReference1(S.props[p].pcLink,
                                           S.props[p].SubList[i],
                                           S.props[p].ShadowSubList[i])])

\* PropertyXLink::updateElementReference(nullptr)
XLink_updateElementReference(S, p) ==
    updateElementReference(S, p,
        Rep(Len(S.props[p].SubList), S.props[p].pcLink), S.props[p].SubList)

\* restoreLink that sets the target and leaves the backlinks alone
XLink_restoreLink_noBackLink(S, p, lValue) ==
    XLink_updateElementReference(
        [S EXCEPT !.props[p].LinkDetached = FALSE,
                  !.props[p].pcLink = lValue],
        p)

\* PropertyXLink::restoreLink
XLink_restoreLink(S, p, lValue) ==
    LET owner == getContainer(p)
    IN XLink_updateElementReference(
           [S EXCEPT !.props[p].LinkDetached = FALSE,
                     !.backLinks = IF MaintainsBackLinks(S, p)
                                   THEN addBackLink(@, lValue, owner) ELSE @,
                     !.props[p].pcLink = lValue],
           p)

\* DocInfo::attach: restore every link of the descriptor that has no
\* target yet and whose object exists in doc (todo: the links left)
RECURSIVE DocInfo_restoreLinks(_, _, _, _)
DocInfo_restoreLinks(S, open, doc, todo) ==
    IF todo = {} THEN S
    ELSE LET link == CHOOSE l \in todo : TRUE
             obj == getObject(open, doc, S.props[link].objectName)
             S1 == IF S.props[link].pcLink # NULL \/ obj = NULL THEN S
                   ELSE XLink_restoreLink(S, link, obj)
         IN DocInfo_restoreLinks(S1, open, doc, todo \ {link})

DocInfo_attach(S, open, path, doc) ==
    LET links == S.DocInfoMap[path].links
        S1 == [S EXCEPT !.DocInfoMap[path].pcDoc = doc]
        S2 == DocInfo_restoreLinks(S1, open, doc,
                                   {l \in links : parentProp(l) = NULL})
    IN DocInfo_restoreLinks(S2, open, doc,
                            {l \in links : parentProp(l) # NULL})

\* the open documents saved under the full path
DocsAt(open, path) == {d \in open : getFullPath(getFileName(d)) = path}

\* DocInfo::init
DocInfo_init(S, open, path, objName) ==
    IF DocsAt(open, path) # {}
    THEN DocInfo_attach(S, open, path, CHOOSE d \in DocsAt(open, path) : TRUE)
    ELSE [S EXCEPT !.pending = @ \cup {<<path, objName>>}]

\* DocInfo::get, the lookup: the descriptor at path, made and initialised
\* when there is none, attached when its document has been opened since
DocInfo_find(S, open, path, objName) ==
    IF path \in DOMAIN S.DocInfoMap
    THEN (IF S.DocInfoMap[path].pcDoc = NULL /\ DocsAt(open, path) # {}
          THEN DocInfo_attach(S, open, path,
                              CHOOSE d \in DocsAt(open, path) : TRUE)
          ELSE S)
    ELSE DocInfo_init(
             [S EXCEPT !.DocInfoMap =
                 [q \in DOMAIN @ \cup {path} |->
                     IF q = path
                     THEN [pcDoc |-> NULL, links |-> {}, myPath |-> path]
                     ELSE @[q]]],
             open, path, objName)

\* DocInfo::get, the registration of link l with the descriptor at path
DocInfo_addLink(S, path, l) ==
    IF S.DocInfoMap[path].pcDoc # NULL
       /\ getDocument(getContainer(l)) = S.DocInfoMap[path].pcDoc
    THEN [S EXCEPT !.ret = path]
    ELSE [S EXCEPT !.DocInfoMap[path].links = @ \cup {l}, !.ret = path]

\* DocInfo::get: the descriptor of filename for link l; ret is its path
DocInfo_get(S, open, filename, l, objName) ==
    DocInfo_addLink(
        DocInfo_find([S EXCEPT !.props[l].filePath =
                                   getDocPath(filename).relative],
                     open, getDocPath(filename).fullPath, objName),
        getDocPath(filename).fullPath, l)

\* what the docInfo of a property is once its descriptor has run deinit:
\* a descriptor that is in no map, with no path, no document and no link
DeadInfo == <<"deinit">>

\* DocInfo::deinit: the descriptor leaves the map; a property that still
\* points to it (it is not among its links) keeps the dead descriptor
DocInfo_deinit(S, path) ==
    [S EXCEPT !.DocInfoMap = [q \in DOMAIN @ \ {path} |-> @[q]],
              !.props = [q \in DOMAIN @ |->
                            IF "docInfo" \in DOMAIN @[q] /\ @[q].docInfo = path
                            THEN [@[q] EXCEPT !.docInfo = DeadInfo]
                            ELSE @[q]]]

\* DocInfo::remove, with DocInfo::deinit once no link is left
DocInfo_remove(S, path, l) ==
    IF path \notin DOMAIN S.DocInfoMap \/ l \notin S.DocInfoMap[path].links
    THEN S
    ELSE IF S.DocInfoMap[path].links = {l}
    THEN DocInfo_deinit(S, path)
    ELSE [S EXCEPT !.DocInfoMap[path].links = @ \ {l}]

\* PropertyXLink::unlink
XLink_unlink(S, p) ==
    LET info == S.props[p].docInfo
        S1 == IF info # NoInfo
              THEN [DocInfo_remove(S, info, p) EXCEPT !.props[p].docInfo = NoInfo]
              ELSE S
    IN Link_resetLink([S1 EXCEPT !.props[p].objectName = <<>>], p)

\* PropertyXLinkContainer::aboutToSetChildValue
XLinkContainer_aboutToSetChildValue(S, c, xlink) ==
    IF S.props[xlink].LinkDetached
    THEN [S EXCEPT !.props[c].Deps =
             [o \in DOMAIN @ \ {S.props[xlink].pcLink} |-> @[o]]]
    ELSE S

\* PropertyXLink::aboutToSetValue
XLink_aboutToSetValue(S, p) ==
    IF parentProp(p) \in ContainerIds
    THEN XLinkContainer_aboutToSetChildValue(S, parentProp(p), p)
    ELSE S

\* a detach that removes the reference instead: it leaves its descriptor
\* and forgets the name
XLink_detach_unlinked(S, p) ==
    IF S.props[p].docInfo # NoInfo /\ S.props[p].pcLink # NULL
    THEN XLink_unlink(S, p)
    ELSE S

\* PropertyXLink::detach
XLink_detach(S, p) ==
    IF S.props[p].docInfo # NoInfo /\ S.props[p].pcLink # NULL
    THEN XLink_updateElementReference(
             Link_resetLink(XLink_aboutToSetValue(S, p), p), p)
    ELSE S

\* PropertyXLink::setSubValues
XLink_setSubValues(S, p, subs, shadows) ==
    LET S1 == [S EXCEPT !.props[p].SubList = subs,
                        !.props[p].ShadowSubList = <<>>]
        S2 == IF Len(shadows) = Len(subs)
              THEN XLink_onContainerRestored(
                       [S1 EXCEPT !.props[p].ShadowSubList = shadows], p)
              ELSE XLink_updateElementReference(S1, p)
    IN checkLabelReferences(S2, p, subs)

\* the backlink update of a setter: the old target forgets the owner, the
\* new one learns it
swapBackLink(bl, old, new, parent) ==
    LET b1 == IF old # NULL THEN removeBackLink(bl, old, parent) ELSE bl
    IN IF new # NULL THEN addBackLink(b1, new, parent) ELSE b1

\* PropertyXLink::setValue, the change of descriptor:
\* if (docInfo != info) { unlink(); docInfo = info; }
\* if (!docInfo) filePath.clear();
XLink_setDocInfo(S, p, info) ==
    LET S1 == IF S.props[p].docInfo # info
              THEN [XLink_unlink(S, p) EXCEPT !.props[p].docInfo = info]
              ELSE S
    IN [S1 EXCEPT !.props[p].filePath = IF info = NoInfo THEN <<>> ELSE @]

\* PropertyXLink::setValue(lValue, ...), the choice of descriptor, left in
\* ret: none for a target in the owner's document, the present one when it
\* is of the target's document, else the one DocInfo::get gives
XLink_findInfo(S, open, p, lValue) ==
    IF lValue = NULL \/ getDocument(lValue) = getDocument(getContainer(p))
    THEN [S EXCEPT !.ret = NoInfo]
    ELSE IF S.props[p].docInfo \in DOMAIN S.DocInfoMap
            /\ S.DocInfoMap[S.props[p].docInfo].pcDoc = getDocument(lValue)
    THEN [S EXCEPT !.ret = S.props[p].docInfo]
    ELSE DocInfo_get(S, open, getFileName(getDocument(lValue)), p,
                     NameOf(lValue))

\* PropertyXLink::setValue(lValue, ...), from setFlag(LinkDetached, false)
\* on; S.ret is the descriptor chosen
XLink_setLink(S, p, lValue, subs, shadows) ==
    XLink_setSubValues(
        [XLink_setDocInfo(
             [S EXCEPT !.props[p].LinkDetached = FALSE,
                       !.backLinks =
                           IF MaintainsBackLinks(S, p)
                           THEN swapBackLink(@, S.props[p].pcLink, lValue,
                                             getContainer(p))
                           ELSE @,
                       !.ret = NULL],
             p, S.ret)
            EXCEPT !.props[p].pcLink = lValue,
                   !.props[p].objectName =
                       IF lValue = NULL THEN <<>> ELSE NameOf(lValue)],
        p, subs, shadows)

\* PropertyXLink::setValue(lValue, subs, shadows)
XLink_setValue(S, open, p, lValue, subs, shadows) ==
    IF S.props[p].pcLink = lValue /\ S.props[p].SubList = subs THEN S
    ELSE IF lValue # NULL
            /\ (~isAttachedToDocument(lValue)
                \/ getDocument(lValue) \notin open)
    THEN Throw(S)
    ELSE IF lValue = getContainer(p) THEN Throw(S)
    ELSE XLink_setLink(
             XLink_findInfo(XLink_aboutToSetValue(S, p), open, p, lValue),
             p, lValue, subs, shadows)

\* PropertyXLink::setValue(filename, name, ...), once the descriptor is
\* known (S.ret): the object is set when it is there, else the name is kept
XLink_setName(S, open, p, filename, name, subs, shadows) ==
    LET info == S.ret
        doc == IF filename # <<>> THEN S.DocInfoMap[info].pcDoc
               ELSE getDocument(getContainer(p))
        pObject == IF doc = NULL THEN NULL ELSE getObject(open, doc, name)
    IN IF pObject # NULL
       THEN XLink_setValue([S EXCEPT !.ret = NULL], open, p, pObject, subs,
                           shadows)
       ELSE XLink_setSubValues(
                [XLink_setDocInfo(
                     [XLink_aboutToSetValue(
                          [S EXCEPT !.props[p].LinkDetached = FALSE], p)
                         EXCEPT !.backLinks =
                                    IF S.props[p].pcLink # NULL
                                       /\ MaintainsBackLinks(S, p)
                                    THEN removeBackLink(@, S.props[p].pcLink,
                                                        getContainer(p))
                                    ELSE @,
                                !.props[p].pcLink = NULL,
                                !.ret = NULL],
                     p, info)
                    EXCEPT !.props[p].objectName = name],
                p, subs, shadows)

\* PropertyXLink::setValue(filename, name, subs, shadows)
XLink_setValueByName(S, open, p, filename, name, subs, shadows) ==
    IF name = <<>> THEN XLink_setValue(S, open, p, NULL, subs, shadows)
    ELSE XLink_setName(
             IF filename # <<>> THEN DocInfo_get(S, open, filename, p, name)
             ELSE [S EXCEPT !.ret = NoInfo],
             open, p, filename, name, subs, shadows)

\* PropertyXLink::~PropertyXLink
XLink_destruct(S, p) == LinkBase_destruct(XLink_unlink(S, p), p)

\* PropertyLink::breakLink as inherited by PropertyXLink
XLink_breakLink(S, open, p, obj, clear) ==
    IF S.props[p].pcLink = obj \/ (clear /\ getContainer(p) = obj)
    THEN XLink_setValue(S, open, p, NULL, <<>>, <<>>)
    ELSE S

\* DocInfo::slotFinishRestoreDocument
DocInfo_slotFinishRestoreDocument(S, open, path, doc) ==
    IF S.DocInfoMap[path].pcDoc # NULL THEN S
    ELSE IF path # <<>> /\ getFullPath(getFileName(doc)) = path
    THEN DocInfo_attach(S, open, path, doc)
    ELSE S

\* signalFinishRestoreDocument(doc) delivered to every descriptor
RECURSIVE FinishRestoreDocument(_, _, _, _)
FinishRestoreDocument(S, open, doc, todo) ==
    IF todo = {} THEN S
    ELSE LET path == CHOOSE q \in todo : TRUE
         IN FinishRestoreDocument(
                IF path \in DOMAIN S.DocInfoMap
                THEN DocInfo_slotFinishRestoreDocument(S, open, path, doc)
                ELSE S,
                open, doc, todo \ {path})

\* DocInfo::slotDeleteDocument: unlink the links owned by the document,
\* then detach the links into it
RECURSIVE DocInfo_unlinkOwned(_, _, _, _)
DocInfo_unlinkOwned(S, path, doc, todo) ==
    IF todo = {} THEN S
    ELSE LET link == CHOOSE l \in todo : TRUE
             S1 == IF getDocument(getContainer(link)) = doc
                   THEN XLink_unlink(
                            [S EXCEPT !.DocInfoMap[path].links = @ \ {link},
                                      !.props[link].docInfo = NoInfo],
                            link)
                   ELSE S
         IN DocInfo_unlinkOwned(S1, path, doc, todo \ {link})

RECURSIVE DocInfo_detachLinks(_, _)
DocInfo_detachLinks(S, todo) ==
    IF todo = {} THEN S
    ELSE LET link == CHOOSE l \in todo : TRUE
         IN DocInfo_detachLinks(
                XLink_detach([S EXCEPT !.props[link].LinkDetached = TRUE],
                             link),
                todo \ {link})

DocInfo_slotDeleteDocument(S, path, doc) ==
    LET S1 == DocInfo_unlinkOwned(S, path, doc, S.DocInfoMap[path].links)
        links == S1.DocInfoMap[path].links
    IN IF links = {} THEN DocInfo_deinit(S1, path)
       ELSE IF S1.DocInfoMap[path].pcDoc # doc THEN S1
       ELSE [DocInfo_detachLinks(S1, links)
                EXCEPT !.DocInfoMap[path].pcDoc = NULL]

\* signalDeleteDocument(doc) delivered to every descriptor
RECURSIVE DeleteDocument(_, _, _)
DeleteDocument(S, doc, todo) ==
    IF todo = {} THEN S
    ELSE LET path == CHOOSE q \in todo : TRUE
         IN DeleteDocument(
                IF path \in DOMAIN S.DocInfoMap
                THEN DocInfo_slotDeleteDocument(S, path, doc)
                ELSE S,
                doc, todo \ {path})

--------------------------------------------------------------------------
\* PropertyXLinkContainer

\* _removeBackLink(owner) on each object of a set
dropBackLinks(bl, objs, parent) ==
    [b \in Objects |-> IF b \in objs THEN removeBackLink(bl, b, parent)[b]
                       ELSE bl[b]]

\* the end of a child link held in _XLinks: PropertyXLink::~PropertyXLink
XLinkContainer_eraseXLink(S, c, obj) ==
    IF obj \notin S.props[c].XLinks THEN S
    ELSE [XLink_destruct(S, ChildOf(obj))
             EXCEPT !.props[ChildOf(obj)] = InitProp(ChildOf(obj)),
                    !.props[c].XLinks = @ \ {obj}]

RECURSIVE XLinkContainer_eraseXLinks(_, _, _)
XLinkContainer_eraseXLinks(S, c, todo) ==
    IF todo = {} THEN S
    ELSE LET obj == CHOOSE o \in todo : TRUE
         IN XLinkContainer_eraseXLinks(XLinkContainer_eraseXLink(S, c, obj),
                                       c, todo \ {obj})

\* PropertyXLinkContainer::updateDeps, first loop: one entry of newDeps
XLinkContainer_addDep(S, open, c, old, obj, hidden) ==
    LET owner == getContainer(c)
        xlink == ChildOf(obj)
        S1 == IF obj \in S.props[c].XLinks THEN S
              ELSE XLink_setValue([S EXCEPT !.props[c].XLinks = @ \cup {obj}],
                                  open, xlink, obj, <<>>, <<>>)
    IN IF obj \in DOMAIN old
       THEN (IF hidden = old[obj] THEN S
             ELSE IF hidden
             THEN [S EXCEPT !.backLinks = removeBackLink(@, obj, owner)]
             ELSE [S EXCEPT !.backLinks = addBackLink(@, obj, owner)])
       ELSE IF getDocument(owner) # getDocument(obj)
       THEN [S1 EXCEPT !.props[xlink].scope =
                           IF hidden THEN "Hidden" ELSE "Global"]
       ELSE IF ~hidden
       THEN [S EXCEPT !.backLinks = addBackLink(@, obj, owner)]
       ELSE S

RECURSIVE XLinkContainer_addDeps(_, _, _, _, _, _)
XLinkContainer_addDeps(S, open, c, old, newDeps, todo) ==
    IF todo = {} THEN S
    ELSE LET obj == CHOOSE o \in todo : TRUE
         IN XLinkContainer_addDeps(
                XLinkContainer_addDep(S, open, c, old, obj, newDeps[obj]),
                open, c, old, newDeps, todo \ {obj})

\* PropertyXLinkContainer::updateDeps, second loop: one dependency that
\* newDeps no longer has
XLinkContainer_dropDep(S, c, old, obj) ==
    LET owner == getContainer(c)
    IN IF getDocument(obj) = getDocument(owner)
       THEN (IF ~old[obj]
             THEN [S EXCEPT !.backLinks = removeBackLink(@, obj, owner)]
             ELSE S)
       ELSE XLinkContainer_eraseXLink(S, c, obj)

RECURSIVE XLinkContainer_dropDeps(_, _, _, _)
XLinkContainer_dropDeps(S, c, old, todo) ==
    IF todo = {} THEN S
    ELSE LET obj == CHOOSE o \in todo : TRUE
         IN XLinkContainer_dropDeps(XLinkContainer_dropDep(S, c, old, obj),
                                    c, old, todo \ {obj})

\* PropertyXLinkContainer::updateDeps (newDeps: object -> hidden)
XLinkContainer_updateDeps(S, open, c, deps) ==
    LET owner == getContainer(c)
        newDeps == [o \in DOMAIN deps \ {owner} |-> deps[o]]
        old == S.props[c].Deps
        attached(o) == getDocument(o) \in open
        S1 == XLinkContainer_addDeps(S, open, c, old, newDeps,
                                     {o \in DOMAIN newDeps : attached(o)})
        S2 == XLinkContainer_dropDeps(S1, c, old,
                  {o \in DOMAIN old \ DOMAIN newDeps : attached(o)})
        S3 == [S2 EXCEPT !.props[c].Deps = newDeps]
    IN XLinkContainer_eraseXLinks(S3, c,
           {o \in S3.props[c].XLinks : S3.props[ChildOf(o)].pcLink = NULL})

\* PropertyXLinkContainer::clearDeps
XLinkContainer_clearDeps(S, open, c) ==
    LET owner == getContainer(c)
        deps == S.props[c].Deps
        local == {o \in DOMAIN deps : /\ ~deps[o]
                                      /\ getDocument(o) \in open
                                      /\ getDocument(o) = getDocument(owner)}
        S1 == IF ~testStatusDestroy(owner)
              THEN [S EXCEPT !.backLinks = dropBackLinks(@, local, owner)]
              ELSE S
    IN XLinkContainer_eraseXLinks([S1 EXCEPT !.props[c].Deps = <<>>], c,
                                  S1.props[c].XLinks)

\* PropertyXLinkContainer::breakLink
XLinkContainer_breakLink(S, open, c, obj, clear) ==
    LET owner == getContainer(c)
        deps == S.props[c].Deps
        local == {o \in DOMAIN deps : /\ ~deps[o]
                                      /\ getDocument(o) \in open
                                      /\ getDocument(o) = getDocument(owner)}
        S1 == IF getDocument(obj) # getDocument(owner)
              THEN XLinkContainer_eraseXLink(S, c, obj)
              ELSE IF ~deps[obj]
              THEN [S EXCEPT !.backLinks = removeBackLink(@, obj, owner)]
              ELSE S
        S2 == [S EXCEPT !.backLinks = dropBackLinks(@, local, owner)]
    IN IF getDocument(obj) \notin open THEN S
       ELSE IF ~clear \/ obj # owner
       THEN (IF obj \notin DOMAIN deps THEN S
             ELSE [S1 EXCEPT !.props[c].Deps =
                      [o \in DOMAIN @ \ {obj} |-> @[o]]])
       ELSE XLinkContainer_eraseXLinks([S2 EXCEPT !.props[c].Deps = <<>>], c,
                                       S2.props[c].XLinks)

\* PropertyXLinkContainer::~PropertyXLinkContainer: the members _XLinks
\* and _Deps go, then the base class destructor runs
XLinkContainer_destruct(S, c) ==
    LinkBase_destruct(
        XLinkContainer_eraseXLinks(S, c, S.props[c].XLinks), c)

--------------------------------------------------------------------------
\* Copy-on-write transformations: the rewriting of targets and subnames

\* the outcome of tryReplaceLink: no replacement
NoLink == [first |-> NULL, second |-> <<>>]

\* the character of s at position pos, or the terminating NUL
CharAt(s, pos) == IF pos <= Len(s) THEN s[pos] ELSE "NUL"

\* PropertyLinkBase::tryReplaceLink; subname <<>> stands for no subname.
\* ReplaceWalk is its loop over the dots of the subname: from is where the
\* search for the next dot starts, prev the object resolved by the segment
\* before and prevPos where the present segment starts.
RECURSIVE tryReplaceLink(_, _, _, _, _, _)
RECURSIVE ReplaceWalk(_, _, _, _, _, _, _, _, _)
ReplaceWalk(owner, obj, parent, oldObj, newObj, sub, from, prev, prevPos) ==
    LET dot == FindChar(sub, ".", from)
        pos == dot + 1
        sobj == getSubObject(obj, SubSeq(sub, 1, dot))
    IN IF dot = 0 THEN NoLink
       ELSE IF CharAt(sub, pos) = "."
       THEN ReplaceWalk(owner, obj, parent, oldObj, newObj, sub, pos, prev,
                        prevPos)
       ELSE IF sobj = NULL THEN NoLink
       ELSE IF sobj = oldObj
       THEN (IF prev = parent
             THEN [first |-> obj,
                   second |->
                       IF sub[prevPos] = "$"
                       THEN Replace(sub, prevPos + 1, pos - 1 - prevPos,
                                    Label(newObj))
                       ELSE Replace(sub, prevPos, pos - 1 - prevPos,
                                    NameOf(newObj))]
             ELSE NoLink)
       ELSE IF sobj = newObj
       THEN tryReplaceLink(owner, obj, parent, newObj, oldObj, sub)
       ELSE IF prev = parent THEN NoLink
       ELSE ReplaceWalk(owner, obj, parent, oldObj, newObj, sub, pos, sobj,
                        pos)

\* tryReplaceLink without the exchange for a target that is newObj: the
\* subname is walked instead
tryReplaceLink_unexchanged(owner, obj, parent, oldObj, newObj, subname) ==
    IF obj = NULL THEN NoLink
    ELSE IF oldObj = obj
    THEN (IF owner = parent THEN [first |-> newObj, second |-> subname]
          ELSE NoLink)
    ELSE IF subname = <<>> THEN NoLink
    ELSE ReplaceWalk(owner, obj, parent, oldObj, newObj, subname, 1, obj, 1)

tryReplaceLink(owner, obj, parent, oldObj, newObj, subname) ==
    IF obj = NULL THEN NoLink
    ELSE IF oldObj = obj
    THEN (IF owner = parent THEN [first |-> newObj, second |-> subname]
          ELSE NoLink)
    ELSE IF newObj = obj
    THEN tryReplaceLink(owner, obj, parent, newObj, oldObj, subname)
    ELSE IF subname = <<>> THEN NoLink
    ELSE ReplaceWalk(owner, obj, parent, oldObj, newObj, subname, 1, obj, 1)

\* the loop of tryReplaceLinkSubs over the subnames from index i on; res
\* is the pair built so far
RECURSIVE ReplaceSubs(_, _, _, _, _, _, _, _)
ReplaceSubs(owner, obj, parent, oldObj, newObj, subs, i, res) ==
    IF i > Len(subs) THEN res
    ELSE LET r == tryReplaceLink(owner, obj, parent, oldObj, newObj, subs[i])
             res1 == IF r.first # NULL
                     THEN [first |-> IF res.first = NULL THEN r.first
                                     ELSE res.first,
                           second |-> (IF res.first = NULL
                                       THEN SubSeq(subs, 1, i - 1)
                                       ELSE res.second) \o <<r.second>>]
                     ELSE IF res.first # NULL
                     THEN [res EXCEPT !.second = Append(@, subs[i])]
                     ELSE res
         IN ReplaceSubs(owner, obj, parent, oldObj, newObj, subs, i + 1, res1)

\* PropertyLinkBase::tryReplaceLinkSubs
tryReplaceLinkSubs(owner, obj, parent, oldObj, newObj, subs) ==
    LET r == tryReplaceLink(owner, obj, parent, oldObj, newObj, <<>>)
    IN IF obj = NULL THEN NoLink
       ELSE IF r.first # NULL THEN [first |-> r.first, second |-> subs]
       ELSE ReplaceSubs(owner, obj, parent, oldObj, newObj, subs, 1, NoLink)

\* the reference "$label." of an object
LabelRef(obj) == <<"$">> \o Label(obj) \o <<".">>

\* PropertyLinkBase::updateLabelReference, from the occurrence of ref at
\* or after position from
RECURSIVE updateLabelReferenceFrom(_, _, _, _, _, _)
updateLabelReferenceFrom(parent, subname, obj, ref, newLabel, from) ==
    LET pos == Find(subname, ref, from)
    IN IF pos = 0 THEN <<>>
       ELSE IF getSubObject(parent,
                            SubSeq(subname, 1, pos + Len(ref) - 1)) = obj
       THEN Replace(subname, pos + 1, Len(ref) - 2, newLabel)
       ELSE updateLabelReferenceFrom(parent, subname, obj, ref, newLabel,
                                     pos + Len(ref))

\* updateLabelReference without the test that the occurrence resolves to
\* obj: the first occurrence of ref is rewritten
updateLabelReference_unresolved(parent, subname, obj, ref, newLabel) ==
    IF obj = NULL \/ parent = NULL \/ Find(subname, ref, 1) = 0 THEN <<>>
    ELSE Replace(subname, Find(subname, ref, 1) + 1, Len(ref) - 2, newLabel)

\* PropertyLinkBase::updateLabelReference
updateLabelReference(parent, subname, obj, ref, newLabel) ==
    IF obj = NULL \/ parent = NULL THEN <<>>
    ELSE updateLabelReferenceFrom(parent, subname, obj, ref, newLabel, 1)

\* A name map of an import: the exported objects and, for each, the name
\* of the object that was imported for it.
\* PropertyLinkBase::tryImport: [thrown, obj]
tryImport(open, doc, obj, nameMap) ==
    IF doc # NULL /\ obj # NULL /\ obj \in DOMAIN nameMap
    THEN [thrown |-> getObject(open, doc, nameMap[obj]) = NULL,
          obj |-> getObject(open, doc, nameMap[obj])]
    ELSE [thrown |-> FALSE, obj |-> obj]

\* PropertyLinkBase::tryImportSubName, its loop: next is where the present
\* segment starts, sub where the text not yet written starts, ss the
\* output; the outcome is [thrown, sub]
RECURSIVE ImportWalk(_, _, _, _, _, _, _, _)
ImportWalk(open, obj, subname, doc, nameMap, next, sub, ss) ==
    LET dot == FindChar(subname, ".", next)
        sobj == getSubObject(obj, SubSeq(subname, 1, dot))
        seg == SubSeq(subname, next, dot - 1)
        byLabel == seg # <<>> /\ seg[1] = "$"
        imported == getObject(open, doc, nameMap[sobj])
    IN IF dot = 0
       THEN [thrown |-> FALSE, sub |-> IF sub # 1 THEN ss ELSE <<>>]
       ELSE IF sobj = NULL THEN [thrown |-> FALSE, sub |-> <<>>]
       ELSE IF \/ byLabel /\ Tail(seg) # Label(sobj)
               \/ ~byLabel /\ seg # NameOf(sobj)
               \/ sobj \notin DOMAIN nameMap
       THEN ImportWalk(open, obj, subname, doc, nameMap, dot + 1, sub, ss)
       ELSE IF imported = NULL THEN [thrown |-> TRUE, sub |-> <<>>]
       ELSE ImportWalk(open, obj, subname, doc, nameMap, dot + 1, dot + 1,
                ss \o SubSeq(subname, sub, next - 1)
                   \o (IF byLabel
                       THEN <<"$">> \o Label(imported) \o <<".">>
                       ELSE nameMap[sobj] \o <<".">>))

\* PropertyLinkBase::tryImportSubName
tryImportSubName(open, obj, subname, doc, nameMap) ==
    IF doc = NULL \/ obj = NULL THEN [thrown |-> FALSE, sub |-> <<>>]
    ELSE ImportWalk(open, obj, subname, doc, nameMap, 1, 1, <<>>)

\* updateLinkSubs, its loop: new[i] is what the rewriting function gave
\* for subs[i] (empty for no change), res the result built so far
RECURSIVE updateLinkSubsFrom(_, _, _, _)
updateLinkSubsFrom(subs, new, i, res) ==
    IF i > Len(subs) THEN res
    ELSE updateLinkSubsFrom(subs, new, i + 1,
             IF new[i] # <<>>
             THEN (IF res = <<>> THEN SubSeq(subs, 1, i - 1) ELSE res)
                      \o <<new[i]>>
             ELSE IF res # <<>> THEN Append(res, subs[i])
             ELSE res)

\* updateLinkSubs(obj, subs, &updateLabelReference, obj, ref, newLabel)
updateLinkSubsLabel(link, subs, obj, ref, newLabel) ==
    IF link = NULL THEN <<>>
    ELSE updateLinkSubsFrom(subs,
             [i \in 1..Len(subs) |->
                 updateLabelReference(link, subs[i], obj, ref, newLabel)],
             1, <<>>)

\* updateLinkSubs(obj, subs, &tryImportSubName, doc, nameMap): [thrown,
\* subs]
updateLinkSubsImport(open, link, subs, doc, nameMap) ==
    IF link = NULL THEN [thrown |-> FALSE, subs |-> <<>>]
    ELSE [thrown |-> \E i \in 1..Len(subs) :
                        tryImportSubName(open, link, subs[i], doc,
                                         nameMap).thrown,
          subs |-> updateLinkSubsFrom(subs,
                       [i \in 1..Len(subs) |->
                           tryImportSubName(open, link, subs[i], doc,
                                            nameMap).sub],
                       1, <<>>)]

--------------------------------------------------------------------------
\* Copy-on-write transformations of the properties.  A CopyOn... method
\* returns a new property or nullptr: out is <<copy>> or <<>>.  The handler
\* records the call and what it returned in S.call.

Returned(S, op, p, args, out) ==
    [S EXCEPT !.call = [op |-> op, prop |-> p, args |-> args, out |-> out]]

LinkReplaceArgs(parent, oldObj, newObj) ==
    [parent |-> parent, oldObj |-> oldObj, newObj |-> newObj]

\* PropertyLink::CopyOnLinkReplace
Link_CopyOnLinkReplace(S, p, parent, oldObj, newObj) ==
    LET res == tryReplaceLink(getContainer(p), S.props[p].pcLink, parent,
                              oldObj, newObj, <<>>)
    IN Returned(S, "CopyOnLinkReplace", p,
                LinkReplaceArgs(parent, oldObj, newObj),
                IF res.first # NULL THEN <<[pcLink |-> res.first]>>
                ELSE <<>>)

\* PropertyLinkList::CopyOnLinkReplace, its loop from index i on
RECURSIVE LinkList_replaceFrom(_, _, _, _, _, _, _)
LinkList_replaceFrom(owner, list, parent, oldObj, newObj, i, acc) ==
    IF i > Len(list) THEN acc
    ELSE LET res == tryReplaceLink(owner, list[i], parent, oldObj, newObj,
                                   <<>>)
             links == IF acc.copied THEN acc.links
                      ELSE SubSeq(list, 1, i - 1)
             acc1 == IF res.first # NULL
                     THEN [found |-> TRUE, copied |-> TRUE,
                           links |-> Append(links, res.first)]
                     ELSE IF list[i] = newObj
                     THEN [acc EXCEPT !.copied = TRUE, !.links = links]
                     ELSE IF acc.copied
                     THEN [acc EXCEPT !.links = Append(@, list[i])]
                     ELSE acc
         IN LinkList_replaceFrom(owner, list, parent, oldObj, newObj, i + 1,
                                 acc1)

\* PropertyLinkList::CopyOnLinkReplace
LinkList_CopyOnLinkReplace(S, p, parent, oldObj, newObj) ==
    LET acc == LinkList_replaceFrom(getContainer(p), S.props[p].lValueList,
                   parent, oldObj, newObj, 1,
                   [found |-> FALSE, copied |-> FALSE, links |-> <<>>])
    IN Returned(S, "CopyOnLinkReplace", p,
                LinkReplaceArgs(parent, oldObj, newObj),
                IF acc.found THEN <<[lValueList |-> acc.links]>> ELSE <<>>)

\* PropertyLinkSub::CopyOnLinkReplace
LinkSub_CopyOnLinkReplace(S, p, parent, oldObj, newObj) ==
    LET res == tryReplaceLinkSubs(getContainer(p), S.props[p].pcLinkSub,
                                  parent, oldObj, newObj, S.props[p].cSubList)
    IN Returned(S, "CopyOnLinkReplace", p,
                LinkReplaceArgs(parent, oldObj, newObj),
                IF res.first # NULL
                THEN <<[pcLinkSub |-> res.first, cSubList |-> res.second,
                        ShadowSubList |-> <<>>]>>
                ELSE <<>>)

\* PropertyLinkSub::CopyOnLabelChange
LinkSub_CopyOnLabelChange(S, p, obj, ref, newLabel) ==
    LET subs == updateLinkSubsLabel(S.props[p].pcLinkSub,
                                    S.props[p].cSubList, obj, ref, newLabel)
    IN Returned(S, "CopyOnLabelChange", p,
                [obj |-> obj, ref |-> ref, newLabel |-> newLabel],
                IF S.props[p].pcLinkSub = NULL \/ subs = <<>> THEN <<>>
                ELSE <<[pcLinkSub |-> S.props[p].pcLinkSub,
                        cSubList |-> subs, ShadowSubList |-> <<>>]>>)

\* PropertyLinkSub::CopyOnImportExternal, once the subnames (u) and the
\* target (linked) are rewritten
LinkSub_imported(S, p, nameMap, u, linked) ==
    LET r == S.props[p]
    IN IF u.thrown \/ linked.thrown
       THEN Throw(Returned(S, "CopyOnImportExternal", p,
                           [nameMap |-> nameMap], <<>>))
       ELSE Returned(S, "CopyOnImportExternal", p, [nameMap |-> nameMap],
                IF u.subs = <<>> /\ linked.obj = r.pcLinkSub THEN <<>>
                ELSE <<[pcLinkSub |-> linked.obj,
                        cSubList |-> IF u.subs = <<>> THEN r.cSubList
                                     ELSE u.subs,
                        ShadowSubList |-> <<>>]>>)

\* PropertyLinkSub::CopyOnImportExternal
LinkSub_CopyOnImportExternal(S, open, p, nameMap) ==
    IF S.props[p].pcLinkSub = NULL
    THEN Returned(S, "CopyOnImportExternal", p, [nameMap |-> nameMap], <<>>)
    ELSE LinkSub_imported(S, p, nameMap,
             updateLinkSubsImport(open, S.props[p].pcLinkSub,
                                  S.props[p].cSubList,
                                  getDocument(getContainer(p)), nameMap),
             tryImport(open, getDocument(getContainer(p)),
                       S.props[p].pcLinkSub, nameMap))

\* the positions of a pair list that do not hold the pair (v, sub)
Others(values, subs, v, sub) ==
    {k \in 1..Len(values) : ~(values[k] = v /\ subs[k] = sub)}

\* the accumulator of the PropertyLinkSubList::CopyOn... loops with the
\* pair (v, sub) pushed, after the original pairs before index i when it
\* was empty
Pushed(acc, lValue, lSub, i, v, sub) ==
    IF acc.values = <<>>
    THEN [acc EXCEPT !.values = Append(SubSeq(lValue, 1, i - 1), v),
                     !.subs = Append(SubSeq(lSub, 1, i - 1), sub)]
    ELSE [acc EXCEPT !.values = Append(@, v), !.subs = Append(@, sub)]

\* the same when a copy is under way, nothing otherwise
Kept(acc, v, sub) ==
    IF acc.values = <<>> THEN acc
    ELSE [acc EXCEPT !.values = Append(@, v), !.subs = Append(@, sub)]

\* PropertyLinkSubList::CopyOnLinkReplace: the pair (first, second) put in
\* place of pair i; a replacement by newObj first erases its duplicates
SubList_replaced(acc, lValue, lSub, i, newObj, first, second) ==
    LET vals == IF acc.values = <<>> THEN SubSeq(lValue, 1, i - 1)
                ELSE acc.values
        subs == IF acc.values = <<>> THEN SubSeq(lSub, 1, i - 1)
                ELSE acc.subs
        keep == Others(vals, subs, first, second)
    IN IF first = newObj
       THEN [values |-> Append(Pick(vals, keep, 1), first),
             subs |-> Append(Pick(subs, keep, 1), second),
             positions |-> acc.positions \cup {Cardinality(keep) + 1}]
       ELSE [acc EXCEPT !.values = Append(vals, first),
                        !.subs = Append(subs, second)]

\* PropertyLinkSubList::CopyOnLinkReplace, its loop from index i on
RECURSIVE SubList_replaceFrom(_, _, _, _, _, _, _, _)
SubList_replaceFrom(owner, lValue, lSub, parent, oldObj, newObj, i, acc) ==
    IF i > Len(lValue) THEN acc
    ELSE LET res == tryReplaceLink(owner, lValue[i], parent, oldObj, newObj,
                                   lSub[i])
             duplicate == /\ lValue[i] = newObj
                          /\ \E pos \in acc.positions :
                                 lSub[i] = acc.subs[pos]
             acc1 == IF lValue[i] = NULL THEN Kept(acc, NULL, lSub[i])
                     ELSE IF res.first # NULL
                     THEN SubList_replaced(acc, lValue, lSub, i, newObj,
                                           res.first, res.second)
                     ELSE IF acc.values # <<>> /\ ~duplicate
                     THEN Kept(acc, lValue[i], lSub[i])
                     ELSE acc
         IN SubList_replaceFrom(owner, lValue, lSub, parent, oldObj, newObj,
                                i + 1, acc1)

\* the new PropertyLinkSubList of a CopyOn... method, if any
SubList_copy(acc) ==
    IF acc.values = <<>> THEN <<>>
    ELSE <<[lValueList |-> acc.values, lSubList |-> acc.subs,
            ShadowSubList |-> <<>>]>>

\* PropertyLinkSubList::CopyOnLinkReplace
LinkSubList_CopyOnLinkReplace(S, p, parent, oldObj, newObj) ==
    Returned(S, "CopyOnLinkReplace", p,
        LinkReplaceArgs(parent, oldObj, newObj),
        SubList_copy(
            SubList_replaceFrom(getContainer(p), S.props[p].lValueList,
                S.props[p].lSubList, parent, oldObj, newObj, 1,
                [values |-> <<>>, subs |-> <<>>, positions |-> {}])))

\* PropertyLinkSubList::CopyOnLabelChange, its loop from index i on
RECURSIVE SubList_relabelFrom(_, _, _, _, _, _, _)
SubList_relabelFrom(lValue, lSub, obj, ref, newLabel, i, acc) ==
    IF i > Len(lValue) THEN acc
    ELSE LET new_sub == updateLabelReference(lValue[i], lSub[i], obj, ref,
                                             newLabel)
             acc1 == IF lValue[i] = NULL THEN Kept(acc, NULL, lSub[i])
                     ELSE IF new_sub # <<>>
                     THEN Pushed(acc, lValue, lSub, i, lValue[i], new_sub)
                     ELSE Kept(acc, lValue[i], lSub[i])
         IN SubList_relabelFrom(lValue, lSub, obj, ref, newLabel, i + 1,
                                acc1)

\* PropertyLinkSubList::CopyOnLabelChange
LinkSubList_CopyOnLabelChange(S, p, obj, ref, newLabel) ==
    Returned(S, "CopyOnLabelChange", p,
        [obj |-> obj, ref |-> ref, newLabel |-> newLabel],
        SubList_copy(
            SubList_relabelFrom(S.props[p].lValueList, S.props[p].lSubList,
                obj, ref, newLabel, 1,
                [values |-> <<>>, subs |-> <<>>, thrown |-> FALSE])))

\* PropertyLinkSubList::CopyOnImportExternal, pair i once its target
\* (linked) and its subname (new_sub) are rewritten
SubList_importedPair(acc, lValue, lSub, i, linked, new_sub) ==
    IF linked.thrown \/ new_sub.thrown THEN [acc EXCEPT !.thrown = TRUE]
    ELSE IF linked.obj # lValue[i] \/ new_sub.sub # <<>>
    THEN Pushed(acc, lValue, lSub, i, linked.obj, new_sub.sub)
    ELSE Kept(acc, linked.obj, lSub[i])

\* PropertyLinkSubList::CopyOnImportExternal, its loop from index i on
RECURSIVE SubList_importFrom(_, _, _, _, _, _, _)
SubList_importFrom(open, lValue, lSub, doc, nameMap, i, acc) ==
    IF i > Len(lValue) \/ acc.thrown THEN acc
    ELSE SubList_importFrom(open, lValue, lSub, doc, nameMap, i + 1,
             IF lValue[i] = NULL THEN Kept(acc, NULL, lSub[i])
             ELSE SubList_importedPair(acc, lValue, lSub, i,
                      tryImport(open, doc, lValue[i], nameMap),
                      tryImportSubName(open, lValue[i], lSub[i], doc,
                                       nameMap)))

\* the outcome of a CopyOnImportExternal loop: an exception or the copy
ImportReturned(S, p, nameMap, thrown, out) ==
    IF thrown
    THEN Throw(Returned(S, "CopyOnImportExternal", p, [nameMap |-> nameMap],
                        <<>>))
    ELSE Returned(S, "CopyOnImportExternal", p, [nameMap |-> nameMap], out)

SubList_importReturned(S, p, nameMap, acc) ==
    ImportReturned(S, p, nameMap, acc.thrown, SubList_copy(acc))

\* PropertyLinkSubList::CopyOnImportExternal
LinkSubList_CopyOnImportExternal(S, open, p, nameMap) ==
    IF Len(S.props[p].lValueList) # Len(S.props[p].lSubList)
    THEN Returned(S, "CopyOnImportExternal", p, [nameMap |-> nameMap], <<>>)
    ELSE SubList_importReturned(S, p, nameMap,
             SubList_importFrom(open, S.props[p].lValueList,
                 S.props[p].lSubList, getDocument(getContainer(p)), nameMap,
                 1, [values |-> <<>>, subs |-> <<>>, thrown |-> FALSE]))

\* PropertyXLink::copyTo(other, linked, subs): what it leaves in other, a
\* freshly constructed link; src is the link or copy it is called on and
\* hasSubs tells whether subs is given
XLink_copyTo(src, linked, hasSubs, subs) ==
    LET lk == IF linked = NULL THEN src.pcLink ELSE linked
    IN [pcLink |-> NULL,
        docName |-> IF lk # NULL THEN getDocument(lk) ELSE NULL,
        objectName |-> IF lk # NULL THEN NameOf(lk) ELSE src.objectName,
        docInfo |-> IF lk # NULL THEN NoInfo ELSE src.docInfo,
        filePath |-> IF lk # NULL THEN <<>> ELSE src.filePath,
        SubList |-> IF hasSubs THEN subs ELSE src.SubList,
        ShadowSubList |-> IF hasSubs THEN <<>> ELSE src.ShadowSubList]

\* PropertyXLink::CopyOnLinkReplace of the link with value r: the copy
XLink_replaced(r, owner, parent, oldObj, newObj) ==
    LET res == tryReplaceLinkSubs(owner, r.pcLink, parent, oldObj, newObj,
                                  r.SubList)
    IN IF res.first = NULL THEN <<>>
       ELSE <<XLink_copyTo(r, res.first, TRUE, res.second)>>

\* PropertyXLink::CopyOnLabelChange of the link with value r: the copy
XLink_relabelled(r, obj, ref, newLabel) ==
    LET subs == updateLinkSubsLabel(r.pcLink, r.SubList, obj, ref, newLabel)
    IN IF r.pcLink = NULL \/ subs = <<>> THEN <<>>
       ELSE <<XLink_copyTo(r, r.pcLink, TRUE, subs)>>

\* PropertyXLink::CopyOnImportExternal of the link with value r, once the
\* subnames (u) and the target (linked) are rewritten: [thrown, out]
XLink_importedCopy(r, u, linked) ==
    [thrown |-> u.thrown \/ linked.thrown,
     out |-> IF u.thrown \/ linked.thrown THEN <<>>
             ELSE IF u.subs = <<>> /\ linked.obj = r.pcLink THEN <<>>
             ELSE <<XLink_copyTo(r, linked.obj, TRUE, u.subs)>>]

XLink_imported(open, r, owner, nameMap) ==
    IF r.pcLink = NULL THEN [thrown |-> FALSE, out |-> <<>>]
    ELSE XLink_importedCopy(r,
             updateLinkSubsImport(open, r.pcLink, r.SubList,
                                  getDocument(owner), nameMap),
             tryImport(open, getDocument(owner), r.pcLink, nameMap))

\* PropertyXLink::CopyOnLinkReplace
XLink_CopyOnLinkReplace(S, p, parent, oldObj, newObj) ==
    Returned(S, "CopyOnLinkReplace", p,
             LinkReplaceArgs(parent, oldObj, newObj),
             XLink_replaced(S.props[p], getContainer(p), parent, oldObj,
                            newObj))

\* PropertyXLink::CopyOnLabelChange
XLink_CopyOnLabelChange(S, p, obj, ref, newLabel) ==
    Returned(S, "CopyOnLabelChange", p,
             [obj |-> obj, ref |-> ref, newLabel |-> newLabel],
             XLink_relabelled(S.props[p], obj, ref, newLabel))

XLink_importReturned(S, p, nameMap, c) ==
    ImportReturned(S, p, nameMap, c.thrown, c.out)

\* PropertyXLink::CopyOnImportExternal
XLink_CopyOnImportExternal(S, open, p, nameMap) ==
    XLink_importReturned(S, p, nameMap,
        XLink_imported(open, S.props[p], getContainer(p), nameMap))

\* The new PropertyXLinkSubList of a PropertyXLinkSubList::CopyOn...
\* method: copies[i] is what the same method of link i returned.  There
\* is none when no link returned a copy; else every link is copied with
\* copyTo, from its own copy when it has one.
XSubList_copy(S, p, copies) ==
    LET links == S.props[p].Links
    IN IF \A i \in 1..Len(links) : copies[i] = <<>> THEN <<>>
       ELSE <<[Links |->
                [i \in 1..Len(links) |->
                    IF copies[i] # <<>>
                    THEN XLink_copyTo(copies[i][1], NULL, FALSE, <<>>)
                    ELSE XLink_copyTo(S.props[links[i]], NULL, FALSE,
                                      <<>>)]]>>

\* CopyOnLinkReplace that merges into the list it is called on: the
\* rewritten subnames of the first link are stored in that link
XLinkSubList_CopyOnLinkReplace_inPlace(S, p, parent, oldObj, newObj) ==
    IF XSubList_copy(S, p,
           [i \in 1..Len(S.props[p].Links) |->
               XLink_replaced(S.props[S.props[p].Links[i]], getContainer(p),
                              parent, oldObj, newObj)]) = <<>>
    THEN Returned(S, "CopyOnLinkReplace", p,
                  LinkReplaceArgs(parent, oldObj, newObj), <<>>)
    ELSE Returned(
             [S EXCEPT !.props[S.props[p].Links[1]].SubList =
                 XLink_replaced(S.props[S.props[p].Links[1]],
                                getContainer(p), parent, oldObj,
                                newObj)[1].SubList],
             "CopyOnLinkReplace", p, LinkReplaceArgs(parent, oldObj, newObj),
             XSubList_copy(S, p,
                 [i \in 1..Len(S.props[p].Links) |->
                     XLink_replaced(S.props[S.props[p].Links[i]],
                                    getContainer(p), parent, oldObj,
                                    newObj)]))

\* PropertyXLinkSubList::CopyOnLinkReplace.  Its branches that merge the
\* subnames of the links to newObj need the first copy to have newObj as
\* its value; copyTo leaves the value of a copy null, so that they are
\* taken for no object newObj.
XLinkSubList_CopyOnLinkReplace(S, p, parent, oldObj, newObj) ==
    Returned(S, "CopyOnLinkReplace", p,
        LinkReplaceArgs(parent, oldObj, newObj),
        XSubList_copy(S, p,
            [i \in 1..Len(S.props[p].Links) |->
                XLink_replaced(S.props[S.props[p].Links[i]], getContainer(p),
                               parent, oldObj, newObj)]))

\* PropertyXLinkSubList::CopyOnLabelChange
XLinkSubList_CopyOnLabelChange(S, p, obj, ref, newLabel) ==
    Returned(S, "CopyOnLabelChange", p,
        [obj |-> obj, ref |-> ref, newLabel |-> newLabel],
        XSubList_copy(S, p,
            [i \in 1..Len(S.props[p].Links) |->
                XLink_relabelled(S.props[S.props[p].Links[i]], obj, ref,
                                 newLabel)]))

XSubList_importReturned(S, p, nameMap, cs) ==
    ImportReturned(S, p, nameMap, \E i \in 1..Len(cs) : cs[i].thrown,
                   XSubList_copy(S, p, [i \in 1..Len(cs) |-> cs[i].out]))

\* PropertyXLinkSubList::CopyOnImportExternal
XLinkSubList_CopyOnImportExternal(S, open, p, nameMap) ==
    XSubList_importReturned(S, p, nameMap,
        [i \in 1..Len(S.props[p].Links) |->
            XLink_imported(open, S.props[S.props[p].Links[i]],
                           getContainer(p), nameMap)])

\* _Links.emplace_back(...): the link put at the end of _Links, named after
\* the target it is made for unless a link of that name is in the list
XSubList_newLink(S, p, obj) ==
    LET free == XSubChildIds \ SeqToSet(S.props[p].Links)
    IN IF obj # NULL /\ XSubChildOf(obj) \in free THEN XSubChildOf(obj)
       ELSE CHOOSE l \in free : TRUE

\* PropertyXLinkSubList::addValue(obj, subs, reset)
XLinkSubList_addValue(S, open, p, obj, subs, reset) ==
    LET links == S.props[p].Links
        hits == {i \in 1..Len(links) : S.props[links[i]].pcLink = obj}
        l == links[CHOOSE i \in hits : \A j \in hits : i <= j]
        s == S.props[l].SubList
    IN IF obj = NULL \/ getDocument(obj) \notin open THEN Throw(S)
       ELSE IF hits # {}
       THEN XLink_setSubValues(S, l,
                IF s = <<>> \/ reset THEN subs ELSE s \o subs, <<>>)
       ELSE XLink_setValue(
                [S EXCEPT !.props[p].Links =
                              Append(@, XSubList_newLink(S, p, obj))],
                open, XSubList_newLink(S, p, obj), obj, subs, <<>>)

\* PropertyXLinkSubList::setValues(map&&), first loop: a link whose target
\* is not among the values is erased from _Links (and destructed), the
\* others take the subnames given for their target
RECURSIVE XSubList_updateLinks(_, _, _, _)
XSubList_updateLinks(S, p, values, todo) ==
    IF todo = <<>> THEN S
    ELSE XSubList_updateLinks(
             IF S.props[Head(todo)].pcLink \notin DOMAIN values
             THEN [XLink_destruct(S, Head(todo))
                      EXCEPT !.props[Head(todo)] = InitProp(Head(todo)),
                             !.props[p].Links =
                                 SelectSeq(@, LAMBDA l : l # Head(todo))]
             ELSE XLink_setSubValues(S, Head(todo),
                                     values[S.props[Head(todo)].pcLink],
                                     <<>>),
             p, values, Tail(todo))

\* PropertyXLinkSubList::setValues(map&&), second loop: a new link is put
\* at the end of _Links for each value left, then set; the exception of
\* PropertyXLink::setValue ends the loop.  The map is ordered by the
\* addresses of the objects: order is the order it happens to have
RECURSIVE XSubList_addLinks(_, _, _, _, _)
XSubList_addLinks(S, open, p, values, order) ==
    IF order = <<>> \/ S.thrown THEN S
    ELSE XSubList_addLinks(
             XLink_setValue(
                 [S EXCEPT !.props[p].Links =
                               Append(@, XSubChildOf(Head(order)))],
                 open, XSubChildOf(Head(order)), Head(order),
                 values[Head(order)], <<>>),
             open, p, values, Tail(order))

\* the values that no link of S has as target, in the order of the map
XSubList_newValues(S, p, order) ==
    SelectSeq(order,
              LAMBDA o : \A i \in 1..Len(S.props[p].Links) :
                             S.props[S.props[p].Links[i]].pcLink # o)

\* PropertyXLinkSubList::setValues(map&&)
XLinkSubList_setValues(S, open, p, values, order) ==
    IF \E o \in DOMAIN values : o = NULL \/ ~isAttachedToDocument(o)
    THEN Throw(S)
    ELSE XSubList_addLinks(
             XSubList_updateLinks(S, p, values, S.props[p].Links),
             open, p, values, XSubList_newValues(S, p, order))

\* PropertyLinkBase::updateLabelReferences, the loop over the properties
\* registered under the label of obj: out[q] is what CopyOnLabelChange of
\* q returned
LabelChangeOf(S, q, obj, ref, newLabel) ==
    CASE q \in SubIds ->
             LinkSub_CopyOnLabelChange(S, q, obj, ref, newLabel).call.out
      [] q \in SubListIds ->
             LinkSubList_CopyOnLabelChange(S, q, obj, ref,
                                           newLabel).call.out
      [] q \in XSubListIds ->
             XLinkSubList_CopyOnLabelChange(S, q, obj, ref,
                                            newLabel).call.out
      [] q \in XLinkIds \cup ChildIds \cup XSubChildIds ->
             XLink_CopyOnLabelChange(S, q, obj, ref, newLabel).call.out
      [] OTHER -> <<>>

\* PropertyLinkBase::updateLabelReferences: the pairs (property, copy) it
\* returns, as a function of the properties it returns a copy for
updateLabelReferences(S, obj, newLabel) ==
    LET registered == {q \in PropIds : <<Label(obj), q>> \in S.LabelMap}
        ref == LabelRef(obj)
        out == [q \in registered |->
                   LabelChangeOf(S, q, obj, ref, newLabel)]
    IN [S EXCEPT !.call =
           [op |-> "updateLabelReferences",
            args |-> [obj |-> obj, newLabel |-> newLabel],
            out |-> [q \in {r \in registered : out[r] # <<>>} |->
                        out[q][1]]]]

--------------------------------------------------------------------------
\* Whole-value mutations and destructions of the properties of owners that
\* are not being destroyed.

Targets == {"B", "C"}
TargetsOrNull == Targets \cup {NULL}
SubNames == {<<"f">>}
SubLists == SeqsUpTo(SubNames, MaxLen)
FewSubs == SeqsUpTo(SubNames, MaxSubs)
PairLists == SeqsUpTo(Targets \X SubNames, MaxLen)
FewPairs == SeqsUpTo(Targets \X SubNames, MaxSubs)

Firsts(pl) == [i \in 1..Len(pl) |-> pl[i][1]]
Seconds(pl) == [i \in 1..Len(pl) |-> pl[i][2]]

Live(p) == p \in alive

Keeps == UNCHANGED <<alive, destroy, openDocs>>

WLinkSetValue ==
    \E p \in LinkIds, v \in TargetsOrNull :
        Live(p) /\ Do(Link_setValue(Cur, p, v))
                /\ Keeps

WLinkPaste ==
    \E p \in LinkIds, q \in LinkIds :
        Live(p) /\ Live(q) /\ Keeps
        /\ Do(Link_Paste(Cur, p, Link_Copy(Cur, q)))

WLinkBreakLink ==
    \E p \in LinkIds : \E obj \in Targets \cup {getContainer(p)}, clear \in BOOLEAN :
        Live(p) /\ Keeps
        /\ Do(Link_breakLink(Cur, p, obj, clear))

WLinkDestruct ==
    \E p \in LinkIds :
        Live(p) /\ Destruct(p, Link_destruct(Cur, p))

WLinkListSetValues ==
    \E p \in ListIds, v \in SeqsUpTo(Targets, MaxLen) \cup {<<NULL>>} :
        Live(p) /\ Keeps
        /\ Do(LinkList_setValues(Cur, p, v))

WLinkListPaste ==
    \E p \in ListIds, v \in SeqsUpTo(Targets, MaxLen) :
        Live(p) /\ Keeps
        /\ Do(LinkList_Paste(Cur, p, [lValueList |-> v]))

WLinkListBreakLink ==
    \E p \in ListIds : \E obj \in Targets \cup {getContainer(p)}, clear \in BOOLEAN :
        Live(p) /\ Keeps
        /\ Do(LinkList_breakLink(Cur, p, obj, clear))

WLinkListDestruct ==
    \E p \in ListIds :
        Live(p) /\ Destruct(p, LinkList_destruct(Cur, p))

WLinkSubSetValue ==
    \E p \in SubIds, v \in TargetsOrNull, subs \in FewSubs :
        Live(p) /\ Keeps
        /\ Do(LinkSub_setValue(Cur, p, v, subs, <<>>))

WLinkSubPaste ==
    \E p \in SubIds, v \in TargetsOrNull, subs \in FewSubs :
        Live(p) /\ Keeps
        /\ Do(LinkSub_Paste(Cur, p,
                  [pcLinkSub |-> v, cSubList |-> subs,
                   ShadowSubList |-> Rep(Len(subs), EmptyShadow)]))

WLinkSubBreakLink ==
    \E p \in SubIds : \E obj \in Targets \cup {getContainer(p)}, clear \in BOOLEAN :
        Live(p) /\ Keeps
        /\ Do(LinkSub_breakLink(Cur, p, obj, clear))

WLinkSubDestruct ==
    \E p \in SubIds :
        Live(p) /\ Destruct(p, LinkSub_destruct(Cur, p))

WSubListSetValue ==
    \E p \in SubListIds, v \in TargetsOrNull, subs \in FewSubs :
        Live(p) /\ Keeps
        /\ Do(LinkSubList_setValue(Cur, p, v, subs))

WSubListSetValues ==
    \E p \in SubListIds, pl \in FewPairs :
        Live(p) /\ Keeps
        /\ Do(LinkSubList_setValues(Cur, p, Firsts(pl), Seconds(pl), <<>>))

WSubListAddValue ==
    \E p \in SubListIds, v \in TargetsOrNull, subs \in FewSubs,
       reset \in BOOLEAN :
        Live(p) /\ Keeps
        /\ Len(props[p].lValueList) + Len(subs) <= MaxSubs
        /\ Do(LinkSubList_addValue(Cur, p, v, subs, reset))

WSubListRemoveValue ==
    \E p \in SubListIds, v \in TargetsOrNull :
        Live(p) /\ Keeps
        /\ Do(LinkSubList_removeValue(Cur, p, v))

WSubListPaste ==
    \E p \in SubListIds, pl \in FewPairs :
        Live(p) /\ Keeps
        /\ Do(LinkSubList_Paste(Cur, p,
                  [lValueList |-> Firsts(pl), lSubList |-> Seconds(pl),
                   ShadowSubList |-> Rep(Len(pl), EmptyShadow)]))

WSubListBreakLink ==
    \E p \in SubListIds : \E obj \in Targets \cup {getContainer(p)}, clear \in BOOLEAN :
        Live(p) /\ Keeps
        /\ Do(LinkSubList_breakLink(Cur, p, obj, clear))

WSubListDestruct ==
    \E p \in SubListIds :
        Live(p) /\ Destruct(p, LinkSubList_destruct(Cur, p))

NextWhole ==
    \/ WLinkSetValue \/ WLinkPaste \/ WLinkBreakLink \/ WLinkDestruct
    \/ WLinkListSetValues \/ WLinkListPaste \/ WLinkListBreakLink
    \/ WLinkListDestruct
    \/ WLinkSubSetValue \/ WLinkSubPaste \/ WLinkSubBreakLink
    \/ WLinkSubDestruct
    \/ WSubListSetValue \/ WSubListSetValues \/ WSubListAddValue
    \/ WSubListRemoveValue \/ WSubListPaste \/ WSubListBreakLink
    \/ WSubListDestruct

SpecWhole == Init /\ [][NextWhole]_vars

\* the objects a property currently targets
TargetsOf(p) ==
    CASE p \in LinkIds \cup XLinkIds \cup ChildIds \cup XSubChildIds ->
             {props[p].pcLink} \ {NULL}
      [] p \in SubIds  -> {props[p].pcLinkSub} \ {NULL}
      [] p \in ContainerIds ->
             {o \in DOMAIN props[p].Deps :
                 ~props[p].Deps[o] /\ getDocument(o) = getDocument(getContainer(p))}
      [] p \in XSubListIds -> {}
      [] OTHER         -> SeqToSet(props[p].lValueList) \ {NULL}

\* C1: after whole-value mutations and destructions on owners that are not
\* being destroyed, A is in the backlinks of B if and only if some
\* non-Hidden property owned by A currently targets B.
C1_BackLinksExact ==
    \A a \in Objects, b \in Objects :
        a \in backLinks[b] <=>
            \E p \in alive : /\ Scope(p) # "Hidden"
                             /\ getContainer(p) = a
                             /\ b \in TargetsOf(p)

--------------------------------------------------------------------------
\* Positional edits of the list properties: the lists are built with
\* setValues and edited with set1Value and setSize.  List is owned by A
\* and SubList by E, so that each owner has one property.

IListSetValues ==
    \E p \in ListIds, v \in SeqsUpTo(Targets, MaxLen) :
        Live(p) /\ Keeps /\ Do(LinkList_setValues(Cur, p, v))

IListSet1Value ==
    \E p \in ListIds, v \in TargetsOrNull :
        \E idx \in -1..Len(props[p].lValueList) :
            /\ Live(p) /\ Keeps
            /\ idx \in 0..(Len(props[p].lValueList) - 1)
                   \/ Len(props[p].lValueList) < MaxLen
            /\ Do(LinkList_set1Value(Cur, p, idx, v))

IListSetSize ==
    \E p \in ListIds, newSize \in 0..MaxLen :
        Live(p) /\ Keeps /\ Do(LinkList_setSize(Cur, p, newSize))

ISubListSetValues ==
    \E p \in SubListIds, pl \in PairLists :
        Live(p) /\ Keeps
        /\ Do(LinkSubList_setValues(Cur, p, Firsts(pl), Seconds(pl), <<>>))

ISubListSetSize ==
    \E p \in SubListIds, newSize \in 0..MaxLen :
        Live(p) /\ Keeps /\ Do(LinkSubList_setSize(Cur, p, newSize))

NextIndexed ==
    \/ IListSetValues \/ IListSet1Value \/ IListSetSize
    \/ ISubListSetValues \/ ISubListSetSize

SpecIndexed == Init /\ [][NextIndexed]_vars

\* C2: after set1Value and setSize on a list property, its owner is in
\* the backlinks of B exactly when some position of the list still holds B.
C2_ListBackLinksExact ==
    \A p \in ListIds \cup SubListIds, b \in Objects :
        getContainer(p) \in backLinks[b] <=> b \in TargetsOf(p)

--------------------------------------------------------------------------
\* Operations of the properties of owner A, before and after A is flagged
\* ObjectStatus::Destroy

DestroyTargets == {"B"}
ExtFile == getFileName("Ext")
DepObjects == {"B", "X"}
DepMaps == UNION {[d -> BOOLEAN] : d \in SUBSET DepObjects}

\* a step of the container: its child links live exactly while in _XLinks
DoContainer(R) ==
    /\ Do(R)
    /\ alive' = (alive \ ChildIds)
                    \cup {ChildOf(o) : o \in R.props["XC"].XLinks}
    /\ UNCHANGED <<destroy, openDocs>>

DSetDestroy ==
    /\ "A" \notin destroy
    /\ destroy' = destroy \cup {"A"}
    /\ UNCHANGED <<props, alive, backLinks, LabelMap, ElementRefMap,
                   openDocs, DocInfoMap, pending, result, call>>

DLinkSetValue ==
    \E v \in DestroyTargets \cup {NULL} :
        Live("Link") /\ Keeps /\ Do(Link_setValue(Cur, "Link", v))

DListSetValues ==
    \E v \in SeqsUpTo(DestroyTargets, MaxLen) :
        Live("List") /\ Keeps /\ Do(LinkList_setValues(Cur, "List", v))

DListSet1Value ==
    \E v \in DestroyTargets \cup {NULL} :
        \E idx \in -1..Len(props["List"].lValueList) :
            /\ Live("List") /\ Keeps
            /\ idx \in 0..(Len(props["List"].lValueList) - 1)
                   \/ Len(props["List"].lValueList) < MaxLen
            /\ Do(LinkList_set1Value(Cur, "List", idx, v))

DListSetSize ==
    \E newSize \in 0..MaxLen :
        Live("List") /\ Keeps /\ Do(LinkList_setSize(Cur, "List", newSize))

DXLinkSetValue ==
    \E v \in DestroyTargets \cup {"X", NULL} :
        /\ Live("XLink") /\ Keeps
        /\ Do(XLink_setValue(Cur, openDocs, "XLink", v, <<>>, <<>>))

DXLinkSetValueByName ==
    /\ Live("XLink") /\ Keeps
    /\ Do(XLink_setValueByName(Cur, openDocs, "XLink", ExtFile, NameOf("X"),
                               <<>>, <<>>))

DBreakLink ==
    \E obj \in DestroyTargets \cup {"A"}, clear \in BOOLEAN :
        /\ Keeps
        /\ \/ Live("Link") /\ Do(Link_breakLink(Cur, "Link", obj, clear))
           \/ Live("List") /\ Do(LinkList_breakLink(Cur, "List", obj, clear))
           \/ Live("XLink")
              /\ Do(XLink_breakLink(Cur, openDocs, "XLink", obj, clear))

DDestruct ==
    \/ Live("Link") /\ Destruct("Link", Link_destruct(Cur, "Link"))
    \/ Live("List") /\ Destruct("List", LinkList_destruct(Cur, "List"))
    \/ Live("XLink") /\ Destruct("XLink", XLink_destruct(Cur, "XLink"))

\* the external document finishes restoring: attach restores the links
\* that wait for it
DOpenDocument ==
    /\ "Ext" \notin openDocs
    /\ openDocs' = openDocs \cup {"Ext"}
    /\ Do(FinishRestoreDocument(Cur, openDocs \cup {"Ext"}, "Ext",
                                DOMAIN DocInfoMap))
    /\ UNCHANGED <<alive, destroy>>

DUpdateDeps ==
    \E deps \in DepMaps :
        /\ Live("XC")
        /\ \A o \in DOMAIN deps : getDocument(o) \in openDocs
        /\ DoContainer(XLinkContainer_updateDeps(Cur, openDocs, "XC", deps))

DClearDeps ==
    Live("XC") /\ DoContainer(XLinkContainer_clearDeps(Cur, openDocs, "XC"))

DContainerBreakLink ==
    \E obj \in DepObjects \cup {"A"}, clear \in BOOLEAN :
        /\ Live("XC")
        /\ DoContainer(XLinkContainer_breakLink(Cur, openDocs, "XC", obj,
                                                clear))

NextDestroy ==
    \/ DSetDestroy
    \/ DLinkSetValue
    \/ DListSetValues
    \/ DListSet1Value
    \/ DListSetSize
    \/ DXLinkSetValue
    \/ DXLinkSetValueByName
    \/ DBreakLink
    \/ DDestruct
    \/ DOpenDocument
    \/ DUpdateDeps
    \/ DClearDeps
    \/ DContainerBreakLink

SpecDestroy == Init /\ [][NextDestroy]_vars

\* C3: while an owner is flagged pending-destroy, no step of the
\* operations of its reference properties (setValue, setValues, set1Value,
\* setSize, breakLink, updateDeps, clearDeps, restoreLink, destructor) adds
\* the owner to, or removes it from, the backlink set of any entity.
C3_DestroyKeepsBackLinks ==
    [][\A o \in destroy : \A b \in Objects :
           (o \in backLinks[b]) <=> (o \in backLinks'[b])]_vars


--------------------------------------------------------------------------
\* The copy-on-write transformations: one property is given a value, and
\* the transformations are then called on the properties.  A transformation
\* hands its caller a new property, which the caller holds until it drops
\* it.

\* the path segments of the subnames: a label reference and a name
CopySegs == {<<"$", "x">>, <<"C">>}

\* the dot-terminated paths of at most n segments
RECURSIVE SegPaths(_)
SegPaths(n) ==
    IF n = 0 THEN {<<>>}
    ELSE SegPaths(n - 1)
            \cup {path \o seg \o <<".">> :
                      path \in SegPaths(n - 1), seg \in CopySegs}

\* the subnames: a path, then an element name or nothing
CopySubNames ==
    {path \o e : path \in SegPaths(MaxSegs), e \in {<<>>, <<"f">>}} \ {<<>>}
CopySubLists == SeqsUpTo(CopySubNames, MaxSubs)
CopyPairLists ==
    SeqsUpTo({"A", "B"} \X CopySubNames, MaxSubs) \ {<<>>}

ReplaceParents == {"A", "B", "E"}
OldObjs == {"B", "C"}
NewObjs == {"C", "D"}
LabelObjs == {"B", "C"}
NewLabels == {<<"n">>, <<"x">>}
\* the name maps of the imports; no object is named Z
NameMaps ==
    {[o \in {"C"} |-> <<"D">>], [o \in {"C"} |-> <<"B">>],
     [o \in {"B"} |-> <<"D">>], [o \in {"B"} |-> <<"Z">>],
     [o \in {"X"} |-> <<"B">>]}

CopyOps == {"CopyOnLinkReplace", "CopyOnLabelChange", "CopyOnImportExternal"}

\* no property has a value yet and no copy is held
Quiet ==
    /\ call = NoCall
    /\ \A q \in PropIds : props[q] = InitProp(q)

CLinkSetValue ==
    /\ Quiet
    /\ \E v \in Targets :
        Keeps /\ Do(Link_setValue(Cur, "Link", v))

CListSetValues ==
    /\ Quiet
    /\ \E v \in SeqsUpTo(Targets, MaxLen) \ {<<>>} :
        Keeps /\ Do(LinkList_setValues(Cur, "List", v))

CSubSetValue ==
    /\ Quiet
    /\ \E v \in {"B", "D"}, subs \in CopySubLists :
        Keeps /\ Do(LinkSub_setValue(Cur, "Sub", v, subs, <<>>))

CSubListSetValues ==
    /\ Quiet
    /\ \E pl \in CopyPairLists :
        Keeps
        /\ Do(LinkSubList_setValues(Cur, "SubList", Firsts(pl), Seconds(pl),
                                    <<>>))

CXLinkSetValue ==
    /\ Quiet
    /\ \E v \in {"B", "X"}, subs \in CopySubLists :
        /\ Keeps
        /\ getDocument(v) \in openDocs
        /\ Do(XLink_setValue(Cur, openDocs, "XLink", v, subs, <<>>))

CXSubListAddValue ==
    /\ Quiet
    /\ \E obj \in {"A", "B"}, subs \in CopySubLists :
        /\ Do(XLinkSubList_addValue(Cur, openDocs, "XSubList", obj, subs,
                                    FALSE))
        /\ alive' = alive \cup {XSubChildOf(obj)}
        /\ UNCHANGED <<destroy, openDocs>>

COpenDocument ==
    /\ Quiet
    /\ "Ext" \notin openDocs
    /\ openDocs' = openDocs \cup {"Ext"}
    /\ Do(FinishRestoreDocument(Cur, openDocs \cup {"Ext"}, "Ext",
                                DOMAIN DocInfoMap))
    /\ UNCHANGED <<alive, destroy>>

\* the caller is done with the copy it was handed
CDropCopy ==
    /\ call # NoCall
    /\ call' = NoCall
    /\ UNCHANGED <<props, alive, backLinks, destroy, LabelMap, ElementRefMap,
                   openDocs, DocInfoMap, pending, result>>

\* a transformation is called on the property that has a value, and on
\* any property while none has one, by a caller that holds no copy
Called(p) ==
    /\ call = NoCall
    /\ \/ props[p] # InitProp(p)
       \/ \A q \in PropIds : props[q] = InitProp(q)

CLinkReplace ==
    /\ Called("Link")
    /\ \E parent \in ReplaceParents, oldObj \in OldObjs, newObj \in NewObjs :
        /\ Keeps
        /\ Do(Link_CopyOnLinkReplace(Cur, "Link", parent, oldObj, newObj))

CListReplace ==
    /\ Called("List")
    /\ \E parent \in ReplaceParents, oldObj \in OldObjs, newObj \in NewObjs :
        /\ Keeps
        /\ Do(LinkList_CopyOnLinkReplace(Cur, "List", parent, oldObj, newObj))

CSubReplace ==
    /\ Called("Sub")
    /\ \E parent \in ReplaceParents, oldObj \in OldObjs, newObj \in NewObjs :
        /\ Keeps
        /\ Do(LinkSub_CopyOnLinkReplace(Cur, "Sub", parent, oldObj, newObj))

CSubListReplace ==
    /\ Called("SubList")
    /\ \E parent \in ReplaceParents, oldObj \in OldObjs, newObj \in NewObjs :
        /\ Keeps
        /\ Do(LinkSubList_CopyOnLinkReplace(Cur, "SubList", parent, oldObj,
                                            newObj))

CXLinkReplace ==
    /\ Called("XLink")
    /\ \E parent \in ReplaceParents, oldObj \in OldObjs, newObj \in NewObjs :
        /\ Keeps
        /\ Do(XLink_CopyOnLinkReplace(Cur, "XLink", parent, oldObj, newObj))

CXSubListReplace ==
    /\ Called("XSubList")
    /\ \E parent \in ReplaceParents, oldObj \in OldObjs, newObj \in NewObjs :
        /\ Keeps
        /\ Do(XLinkSubList_CopyOnLinkReplace(Cur, "XSubList", parent, oldObj,
                                             newObj))

CSubLabelChange ==
    /\ Called("Sub")
    /\ \E obj \in LabelObjs, newLabel \in NewLabels :
        /\ Keeps
        /\ Do(LinkSub_CopyOnLabelChange(Cur, "Sub", obj, LabelRef(obj),
                                        newLabel))

CSubListLabelChange ==
    /\ Called("SubList")
    /\ \E obj \in LabelObjs, newLabel \in NewLabels :
        /\ Keeps
        /\ Do(LinkSubList_CopyOnLabelChange(Cur, "SubList", obj,
                                            LabelRef(obj), newLabel))

CXLinkLabelChange ==
    /\ Called("XLink")
    /\ \E obj \in LabelObjs, newLabel \in NewLabels :
        /\ Keeps
        /\ Do(XLink_CopyOnLabelChange(Cur, "XLink", obj, LabelRef(obj),
                                      newLabel))

CXSubListLabelChange ==
    /\ Called("XSubList")
    /\ \E obj \in LabelObjs, newLabel \in NewLabels :
        /\ Keeps
        /\ Do(XLinkSubList_CopyOnLabelChange(Cur, "XSubList", obj,
                                             LabelRef(obj), newLabel))

CSubImport ==
    /\ Called("Sub")
    /\ \E nameMap \in NameMaps :
        /\ Keeps
        /\ Do(LinkSub_CopyOnImportExternal(Cur, openDocs, "Sub", nameMap))

CSubListImport ==
    /\ Called("SubList")
    /\ \E nameMap \in NameMaps :
        /\ Keeps
        /\ Do(LinkSubList_CopyOnImportExternal(Cur, openDocs, "SubList",
                                               nameMap))

CXLinkImport ==
    /\ Called("XLink")
    /\ \E nameMap \in NameMaps :
        /\ Keeps
        /\ Do(XLink_CopyOnImportExternal(Cur, openDocs, "XLink", nameMap))

CXSubListImport ==
    /\ Called("XSubList")
    /\ \E nameMap \in NameMaps :
        /\ Keeps
        /\ Do(XLinkSubList_CopyOnImportExternal(Cur, openDocs, "XSubList",
                                                nameMap))

CUpdateLabelReferences ==
    /\ call = NoCall
    /\ \E obj \in LabelObjs, newLabel \in NewLabels :
        /\ Keeps
        /\ Do(updateLabelReferences(Cur, obj, newLabel))

NextCopy ==
    \/ CLinkSetValue
    \/ CListSetValues
    \/ CSubSetValue
    \/ CSubListSetValues
    \/ CXLinkSetValue
    \/ CXSubListAddValue
    \/ COpenDocument
    \/ CDropCopy
    \/ CLinkReplace
    \/ CListReplace
    \/ CSubReplace
    \/ CSubListReplace
    \/ CXLinkReplace
    \/ CXSubListReplace
    \/ CSubLabelChange
    \/ CSubListLabelChange
    \/ CXLinkLabelChange
    \/ CXSubListLabelChange
    \/ CSubImport
    \/ CSubListImport
    \/ CXLinkImport
    \/ CXSubListImport
    \/ CUpdateLabelReferences

SpecCopy == Init /\ [][NextCopy]_vars


\* the properties that carry subnames, by class
SubCarriers == SubIds
ListCarriers == SubListIds
XCarriers == XLinkIds \cup ChildIds \cup XSubChildIds

\* a property value, or a copy, of the class of p has as many shadow pairs
\* as subnames (and as many targets, for a list)
SizesAgree(p, r) ==
    CASE p \in SubCarriers -> Len(r.cSubList) = Len(r.ShadowSubList)
      [] p \in ListCarriers ->
             /\ Len(r.lValueList) = Len(r.lSubList)
             /\ Len(r.lSubList) = Len(r.ShadowSubList)
      [] p \in XCarriers -> Len(r.SubList) = Len(r.ShadowSubList)
      [] p \in XSubListIds ->
             \A i \in 1..Len(r.Links) :
                 Len(r.Links[i].SubList) = Len(r.Links[i].ShadowSubList)
      [] OTHER -> TRUE

\* C4: at every call boundary every property that carries subnames has as
\* many shadow pairs as subnames (a list as many targets as subnames too),
\* and so has every new property a CopyOn... method returned
C4_SizesAgree ==
    /\ \A p \in alive \ XSubListIds : SizesAgree(p, props[p])
    /\ (call.op \in CopyOps /\ call.out # <<>>)
           => SizesAgree(call.prop, call.out[1])
    /\ call.op = "updateLabelReferences"
           => \A q \in DOMAIN call.out : SizesAgree(q, call.out[q])


--------------------------------------------------------------------------
\* The renaming of a label while several properties hold subnames.

LabelSubNames ==
    {<<"$", "x", ".", "f">>, <<"C", ".", "f">>,
     <<"B", ".", "$", "x", ".", "f">>}

LSubSetValue ==
    /\ call = NoCall
    /\ props["Sub"] = InitProp("Sub")
    /\ \E v \in {"B", "D"}, subs \in SeqsUpTo(LabelSubNames, MaxSubs) :
        Keeps /\ Do(LinkSub_setValue(Cur, "Sub", v, subs, <<>>))

LSubListSetValues ==
    /\ call = NoCall
    /\ props["SubList"] = InitProp("SubList")
    /\ \E pl \in SeqsUpTo({"A", "B"} \X LabelSubNames, MaxSubs) \ {<<>>} :
        /\ Keeps
        /\ Do(LinkSubList_setValues(Cur, "SubList", Firsts(pl), Seconds(pl),
                                    <<>>))

LXLinkSetValue ==
    /\ call = NoCall
    /\ props["XLink"] = InitProp("XLink")
    /\ \E subs \in SeqsUpTo(LabelSubNames, MaxSubs) :
        Keeps /\ Do(XLink_setValue(Cur, openDocs, "XLink", "B", subs, <<>>))

NextLabel ==
    \/ LSubSetValue
    \/ LSubListSetValues
    \/ LXLinkSetValue
    \/ CUpdateLabelReferences
    \/ CDropCopy

SpecLabel == Init /\ [][NextLabel]_vars

\* the subnames of a property value, or of a copy, of the class of q, and
\* the target its i-th subname is resolved from
SubsOf(q, r) ==
    CASE q \in SubCarriers -> r.cSubList
      [] q \in ListCarriers -> r.lSubList
      [] q \in XCarriers -> r.SubList
      [] OTHER -> <<>>

TargetAt(q, r, i) ==
    CASE q \in SubCarriers -> r.pcLinkSub
      [] q \in ListCarriers -> r.lValueList[i]
      [] OTHER -> r.pcLink

\* the positions of sub where "$label." of obj occurs and the prefix of
\* sub up to it, walked from target, resolves to obj
Occurs(target, sub, obj) ==
    {pos \in 1..Len(sub) :
        /\ IsPrefixAt(sub, LabelRef(obj), pos)
        /\ getSubObject(target,
               SubSeq(sub, 1, pos + Len(LabelRef(obj)) - 1)) = obj}

\* the subnames of q in which an occurrence resolves to obj
Resolving(q, obj) ==
    {i \in 1..Len(SubsOf(q, props[q])) :
        Occurs(TargetAt(q, props[q], i), SubsOf(q, props[q])[i], obj) # {}}

\* C5: updateLabelReferences(obj, newLabel) returns a copy for exactly the
\* properties registered under the label of obj that hold a subname with
\* an occurrence of "$label." resolving to obj; in the copy such a subname
\* has the label of a resolving occurrence replaced by newLabel, and every
\* other subname is the original one
C5_LabelChangePropagates ==
    call.op = "updateLabelReferences" =>
        \A q \in alive \ XSubListIds :
            /\ (q \in DOMAIN call.out)
                   <=> /\ <<Label(call.args.obj), q>> \in LabelMap
                       /\ Resolving(q, call.args.obj) # {}
            /\ (q \in DOMAIN call.out) =>
                   /\ Len(SubsOf(q, call.out[q])) = Len(SubsOf(q, props[q]))
                   /\ \A i \in 1..Len(SubsOf(q, props[q])) :
                          IF i \in Resolving(q, call.args.obj)
                          THEN \E pos \in Occurs(TargetAt(q, props[q], i),
                                                 SubsOf(q, props[q])[i],
                                                 call.args.obj) :
                                   SubsOf(q, call.out[q])[i] =
                                       Replace(SubsOf(q, props[q])[i],
                                               pos + 1,
                                               Len(Label(call.args.obj)),
                                               call.args.newLabel)
                          ELSE SubsOf(q, call.out[q])[i] =
                                   SubsOf(q, props[q])[i]

\* a renaming that gave a copy for one registered property and none for
\* another, whose occurrence resolves to a different object
C5_Witness ==
    /\ call.op = "updateLabelReferences"
    /\ call.args.newLabel # Label(call.args.obj)
    /\ \E q \in DOMAIN call.out, r \in alive :
           /\ r \notin DOMAIN call.out
           /\ <<Label(call.args.obj), r>> \in LabelMap


--------------------------------------------------------------------------
\* The replacement of a link, read off the subname independently of the
\* walk of tryReplaceLink.

\* the dots of a subname; each ends a path segment
Dots(sub) == {d \in 1..Len(sub) : sub[d] = "."}

\* where the segment ended by the dot d starts
SegStart(sub, d) ==
    IF \E e \in Dots(sub) : e < d
    THEN 1 + CHOOSE e \in Dots(sub) :
                 e < d /\ \A g \in Dots(sub) : g < d => g <= e
    ELSE 1

\* the dots whose segment resolves to oldObj while the segment before it
\* (the target, for the first segment) resolves to parent
ReplacedAt(target, sub, parent, oldObj) ==
    {d \in Dots(sub) :
        /\ getSubObject(target, SubSeq(sub, 1, d)) = oldObj
        /\ getSubObject(target, SubSeq(sub, 1, SegStart(sub, d) - 1)) = parent}

\* sub with the segment ended by the dot d rewritten to newObj: its name,
\* or "$" and its label for a label segment; the rest is kept
Rewritten(sub, d, newObj) ==
    SubSeq(sub, 1, SegStart(sub, d) - 1)
        \o (IF sub[SegStart(sub, d)] = "$" THEN <<"$">> \o Label(newObj)
            ELSE NameOf(newObj))
        \o SubSeq(sub, d, Len(sub))

\* what the claim expects for one subname
ExpectedSub(target, sub, parent, oldObj, newObj) ==
    IF ReplacedAt(target, sub, parent, oldObj) = {} THEN sub
    ELSE Rewritten(sub,
             CHOOSE d \in ReplacedAt(target, sub, parent, oldObj) :
                 \A e \in ReplacedAt(target, sub, parent, oldObj) : d <= e,
             newObj)

\* newObj is neither the target nor met on a path: the replacement is not
\* the swap of two objects both present
NewObjAbsent(target, subs, newObj) ==
    /\ target # newObj
    /\ \A i \in 1..Len(subs) : \A d \in Dots(subs[i]) :
           getSubObject(target, SubSeq(subs[i], 1, d)) # newObj

\* C6: CopyOnLinkReplace(parent, oldObj, newObj) of a PropertyLinkSub whose
\* target is oldObj returns a copy to newObj with the subnames unchanged
\* when the owner is parent and nothing otherwise; when a segment of a
\* subname resolves to oldObj below parent, the copy keeps the target and
\* has that segment rewritten to the name of newObj ("$" and its label for
\* a label segment) with the rest of the subname kept; it returns nothing
\* when no segment is below parent
C6_ReplaceHonoursParent ==
    (/\ call.op = "CopyOnLinkReplace" /\ call.prop = "Sub"
     /\ props["Sub"].pcLinkSub # NULL
     /\ call.args.oldObj # call.args.newObj
     /\ NewObjAbsent(props["Sub"].pcLinkSub, props["Sub"].cSubList,
                     call.args.newObj))
    => IF props["Sub"].pcLinkSub = call.args.oldObj
       THEN IF getContainer("Sub") = call.args.parent
            THEN call.out = <<[pcLinkSub |-> call.args.newObj,
                               cSubList |-> props["Sub"].cSubList,
                               ShadowSubList |-> <<>>]>>
            ELSE call.out = <<>>
       ELSE IF \E i \in 1..Len(props["Sub"].cSubList) :
                   ReplacedAt(props["Sub"].pcLinkSub,
                              props["Sub"].cSubList[i], call.args.parent,
                              call.args.oldObj) # {}
            THEN /\ call.out # <<>>
                 /\ call.out[1].pcLinkSub = props["Sub"].pcLinkSub
                 /\ call.out[1].cSubList =
                        [i \in 1..Len(props["Sub"].cSubList) |->
                            ExpectedSub(props["Sub"].pcLinkSub,
                                        props["Sub"].cSubList[i],
                                        call.args.parent, call.args.oldObj,
                                        call.args.newObj)]
            ELSE call.out = <<>>


--------------------------------------------------------------------------
\* What a copy changes.

\* the copy c of an external link names another target than the link r,
\* or holds other subnames
XLinkDiffers(r, c) ==
    \/ c.SubList # r.SubList
    \/ r.pcLink = NULL
    \/ c.objectName # NameOf(r.pcLink)

\* the copy c of the property q differs from the value r of q in a target
\* or in a subname
Differs(q, r, c) ==
    CASE q \in LinkIds -> c.pcLink # r.pcLink
      [] q \in ListIds -> c.lValueList # r.lValueList
      [] q \in SubCarriers ->
             c.pcLinkSub # r.pcLinkSub \/ c.cSubList # r.cSubList
      [] q \in ListCarriers ->
             c.lValueList # r.lValueList \/ c.lSubList # r.lSubList
      [] q \in XCarriers -> XLinkDiffers(r, c)
      [] OTHER ->
             \/ Len(c.Links) # Len(r.Links)
             \/ \E i \in 1..Len(r.Links) :
                    XLinkDiffers(props[r.Links[i]], c.Links[i])

\* C7: CopyOnLinkReplace, CopyOnLabelChange and CopyOnImportExternal return
\* a new property only if a target or a subname of it differs from the
\* property they are called on
C7_NoRedundantCopy ==
    (call.op \in CopyOps /\ call.out # <<>>)
        => Differs(call.prop, props[call.prop], call.out[1])


\* C8: a step that is a call of CopyOnLinkReplace, CopyOnLabelChange or
\* CopyOnImportExternal leaves every property (targets, subnames, shadow
\* pairs), the backlinks of every object, the label registry, the element
\* registry and the map of the external documents as they were, whether
\* it returns a copy or not
C8_CopyLeavesOriginal ==
    [][(call'.op \in CopyOps /\ call' # call)
           => /\ props' = props
              /\ backLinks' = backLinks
              /\ LabelMap' = LabelMap
              /\ ElementRefMap' = ElementRefMap
              /\ DocInfoMap' = DocInfoMap]_vars

\* a list of external links returned a copy with a rewritten subname
C8_Witness ==
    /\ call.op = "CopyOnLinkReplace"
    /\ call.prop = "XSubList"
    /\ call.out # <<>>
    /\ props["XSubList"].Links # <<>>
    /\ call.out[1].Links[1].SubList
           # props[props["XSubList"].Links[1]].SubList


--------------------------------------------------------------------------
\* The import of external objects, read off the subname segment by
\* segment.

\* the object imported for obj, obj itself when the name map has no entry
MappedObject(open, doc, obj, nameMap) ==
    IF obj # NULL /\ obj \in DOMAIN nameMap
    THEN getObject(open, doc, nameMap[obj]) ELSE obj

\* the segment of sub from position from up to the dot d, as the import
\* leaves it: the name of the imported object, or "$" and its label, when
\* the segment resolves from target to an object of the name map
ImportedSeg(open, target, sub, doc, nameMap, from, d) ==
    LET sobj == getSubObject(target, SubSeq(sub, 1, d))
    IN IF sobj # NULL /\ sobj \in DOMAIN nameMap
       THEN (IF sub[from] = "$"
             THEN <<"$">> \o Label(getObject(open, doc, nameMap[sobj]))
             ELSE nameMap[sobj])
       ELSE SubSeq(sub, from, d - 1)

\* sub with every import-eligible segment replaced and the rest, the
\* trailing element name included, kept
RECURSIVE ImportExpected(_, _, _, _, _, _)
ImportExpected(open, target, sub, doc, nameMap, from) ==
    LET d == FindChar(sub, ".", from)
    IN IF d = 0 THEN Tail0(sub, from)
       ELSE ImportedSeg(open, target, sub, doc, nameMap, from, d)
                \o <<".">>
                \o ImportExpected(open, target, sub, doc, nameMap, d + 1)

\* the copy c of the property q with value r has the mapped target
ImportedTarget(open, q, r, c, i, nameMap) ==
    CASE q \in SubCarriers ->
             c.pcLinkSub = MappedObject(open, getDocument(getContainer(q)),
                                        r.pcLinkSub, nameMap)
      [] q \in ListCarriers ->
             c.lValueList[i] =
                 MappedObject(open, getDocument(getContainer(q)),
                              r.lValueList[i], nameMap)
      [] OTHER ->
             c.objectName =
                 NameOf(MappedObject(open, getDocument(getContainer(q)),
                                     r.pcLink, nameMap))

\* C9: the copy CopyOnImportExternal returns has the imported object as
\* target where the name map has an entry for the target, and at every
\* index the original subname with each import-eligible segment replaced
\* by the imported name (or "$" and the imported label) and all the rest
\* kept: other segments, the trailing element name, and subnames without
\* an eligible segment
C9_ImportRewritesSegments ==
    (/\ call.op = "CopyOnImportExternal" /\ call.out # <<>>
     /\ call.prop \in SubCarriers \cup ListCarriers \cup XLinkIds)
    => /\ Len(SubsOf(call.prop, call.out[1]))
              = Len(SubsOf(call.prop, props[call.prop]))
       /\ \A i \in 1..Len(SubsOf(call.prop, props[call.prop])) :
              /\ ImportedTarget(openDocs, call.prop, props[call.prop],
                                call.out[1], i, call.args.nameMap)
              /\ SubsOf(call.prop, call.out[1])[i] =
                     ImportExpected(openDocs,
                         TargetAt(call.prop, props[call.prop], i),
                         SubsOf(call.prop, props[call.prop])[i],
                         getDocument(getContainer(call.prop)),
                         call.args.nameMap, 1)
       /\ ImportedTarget(openDocs, call.prop, props[call.prop],
                         call.out[1], 1, call.args.nameMap)


--------------------------------------------------------------------------
\* External references while the external document is opened and closed.

ExtLinks == {"XLink", "XLinkHidden"}
\* the names asked for in the external document; it has no object Z
ExtNames == {<<"X">>, <<"Y">>, <<"Z">>}

\* the step made is recorded in call
Stepped(R, op, p, name) ==
    Do([R EXCEPT !.call = [op |-> op, prop |-> p, name |-> name]])

ESetDestroy ==
    /\ "A" \notin destroy
    /\ destroy' = destroy \cup {"A"}
    /\ call' = NoCall
    /\ UNCHANGED <<props, alive, backLinks, LabelMap, ElementRefMap,
                   openDocs, DocInfoMap, pending, result>>

EXLinkSetValueByName ==
    \E p \in ExtLinks, name \in ExtNames :
        /\ Keeps
        /\ Stepped(XLink_setValueByName(Cur, openDocs, p, ExtFile, name,
                                        <<>>, <<>>),
                   "setValue", p, name)

EXLinkSetValue ==
    \E p \in ExtLinks, v \in {"B", "X", NULL} :
        /\ Keeps
        /\ v # NULL => getDocument(v) \in openDocs
        /\ Do(XLink_setValue(Cur, openDocs, p, v, <<>>, <<>>))

EXSubListAddValue ==
    /\ "Ext" \in openDocs
    /\ props["XSubList"].Links = <<>>
    /\ Do(XLinkSubList_addValue(Cur, openDocs, "XSubList", "X", <<>>, FALSE))
    /\ alive' = alive \cup {XSubChildOf("X")}
    /\ UNCHANGED <<destroy, openDocs>>

\* the external document is opened and has finished restoring
EOpenDocument ==
    /\ "Ext" \notin openDocs
    /\ openDocs' = openDocs \cup {"Ext"}
    /\ Stepped(FinishRestoreDocument(Cur, openDocs \cup {"Ext"}, "Ext",
                                     DOMAIN DocInfoMap),
               "finishRestore", NULL, <<>>)
    /\ UNCHANGED <<alive, destroy>>

\* the document has been deleted: R is what signalDeleteDocument left
\* (its backlinks are kept in call as inList), then the objects of the
\* document are gone with their backlinks
Deleted(R, doc) ==
    Do([R EXCEPT !.backLinks =
                     [o \in Objects |->
                         IF getDocument(o) = doc THEN {} ELSE @[o]],
                 !.call = [op |-> "deleteDocument", prop |-> NULL,
                           name |-> <<>>, inList |-> R.backLinks]])

\* the external document is closed
ECloseDocument ==
    /\ "Ext" \in openDocs
    /\ openDocs' = openDocs \ {"Ext"}
    /\ Deleted(DeleteDocument(Cur, "Ext", DOMAIN DocInfoMap), "Ext")
    /\ UNCHANGED <<alive, destroy>>

NextExt ==
    \/ ESetDestroy
    \/ EXLinkSetValueByName
    \/ EXLinkSetValue
    \/ EXSubListAddValue
    \/ EOpenDocument
    \/ ECloseDocument

SpecExt == Init /\ [][NextExt]_vars

\* the links registered with the descriptor of the external document that
\* have no target while an object of their name is in the document
Restorable ==
    {l \in PropIds :
        /\ ExtFile \in DOMAIN DocInfoMap
        /\ l \in DocInfoMap[ExtFile].links
        /\ props[l].pcLink = NULL
        /\ getObject({"Ext"}, "Ext", props[l].objectName) # NULL}

\* a reference set by file and name while the document is not open is left
\* without target and with the name
SetWhileClosed ==
    (call'.op = "setValue" /\ "Ext" \notin openDocs)
        => /\ props'[call'.prop].pcLink = NULL
           /\ props'[call'.prop].objectName = call'.name

--------------------------------------------------------------------------
\* The deletion of the external document.

\* the references into the external document owned in another document:
\* the links registered with its attached descriptor
RefsInto(doc) ==
    {l \in PropIds :
        /\ ExtFile \in DOMAIN DocInfoMap
        /\ DocInfoMap[ExtFile].pcDoc = doc
        /\ l \in DocInfoMap[ExtFile].links
        /\ getDocument(getContainer(l)) # doc}

\* after the deletion link l has no target, keeps its name and its path,
\* is still registered with the descriptor, which is still in the map and
\* has no document
Detached(l) ==
    /\ props'[l].pcLink = NULL
    /\ props'[l].objectName = props[l].objectName
    /\ props'[l].filePath = props[l].filePath
    /\ props'[l].docInfo = props[l].docInfo
    /\ ExtFile \in DOMAIN DocInfoMap'
    /\ l \in DocInfoMap'[ExtFile].links
    /\ DocInfoMap'[ExtFile].pcDoc = NULL

\* the owner of l is not in the backlinks its former target has once
\* signalDeleteDocument has been handled
BackLinkGone(l) ==
    props[l].pcLink # NULL
        => getContainer(l) \notin call'.inList[props[l].pcLink]

\* C11 as claimed: when the external document is deleted, every reference
\* into it whose owner lives in another document ends up detached, not
\* removed: no target, the owner no longer in the backlinks of the former
\* target, name and path unchanged, still registered with the descriptor,
\* which stays in the map without a document
C11_DeleteDetaches ==
    [][call'.op = "deleteDocument" /\ "Ext" \in openDocs \ openDocs'
           => \A l \in RefsInto("Ext") : Detached(l) /\ BackLinkGone(l)]_vars

\* C11 amended: as claimed, but the owner leaves the backlinks of the
\* former target only if it is not pending destroy
C11_DeleteDetachesAmended ==
    [][call'.op = "deleteDocument" /\ "Ext" \in openDocs \ openDocs'
           => \A l \in RefsInto("Ext") :
                  /\ Detached(l)
                  /\ getContainer(l) \notin destroy => BackLinkGone(l)]_vars

\* the document was deleted while A referred to X in it: the reference is
\* detached, with its name, and X has lost the backlink
C11_Witness ==
    /\ call.op = "deleteDocument"
    /\ props["XLink"].LinkDetached
    /\ props["XLink"].pcLink = NULL
    /\ props["XLink"].objectName = <<"X">>
    /\ "XLink" \in DocInfoMap[ExtFile].links
    /\ "A" \notin destroy
    /\ "A" \notin call.inList["X"]

--------------------------------------------------------------------------
\* The descriptors of the path map, with references by file and name to
\* the external document and to the document of the owner itself.

\* the file of the owners' document
OwnFile == getFileName("M")
\* the names asked for in the owners' document; it has no object Z
OwnNames == {<<"B">>, <<"Z">>}

IXLinkSetValueByOwnFile ==
    \E p \in ExtLinks, name \in OwnNames :
        /\ Keeps
        /\ Stepped(XLink_setValueByName(Cur, openDocs, p, OwnFile, name,
                                        <<>>, <<>>),
                   "setValue", p, name)

NextInfo ==
    \/ EXLinkSetValueByName
    \/ EXLinkSetValue
    \/ EXSubListAddValue
    \/ EOpenDocument
    \/ ECloseDocument
    \/ IXLinkSetValueByOwnFile

SpecInfo == Init /\ [][NextInfo]_vars

\* C12: between calls every descriptor in the path map has at least one
\* registered reference: a descriptor is made by the first reference to
\* its path and erased with the last, also when the owner of the acquiring
\* property lives in the document of the descriptor
C12_DescriptorsInUse ==
    \A path \in DOMAIN DocInfoMap : DocInfoMap[path].links # {}

--------------------------------------------------------------------------
\* The order in which a setter calls the hooks, the backlink updates and
\* the assignment of the new value: each setter's calls, in program order.

Hook(e) == [ev |-> e, obj |-> NULL]

NonNull(objs) == SelectSeq(objs, LAMBDA o : o # NULL)

BackLinkCall(e, objs) == [i \in 1..Len(objs) |-> [ev |-> e, obj |-> objs[i]]]

\* the guarded block "maintain the back link": _removeBackLink on each of
\* olds, then _addBackLink on each of news
BackLinkCalls(S, p, olds, news) ==
    IF MaintainsBackLinks(S, p)
    THEN BackLinkCall("_removeBackLink", NonNull(olds))
             \o BackLinkCall("_addBackLink", NonNull(news))
    ELSE <<>>

\* aboutToSetValue(); the assignments; hasSetValue()
Assigned ==
    <<Hook("aboutToSetValue"), Hook("assign"), Hook("hasSetValue")>>

\* PropertyLink::setValue
Link_setValue_calls(S, p, lValue) ==
    <<Hook("aboutToSetValue")>>
        \o BackLinkCalls(S, p, <<S.props[p].pcLink>>, <<lValue>>)
        \o <<Hook("assign"), Hook("hasSetValue")>>

\* PropertyLinkList::setValues, which ends in PropertyListsT::setValues
LinkList_setValues_calls(S, p, value) ==
    BackLinkCalls(S, p, S.props[p].lValueList,
                  IF value = <<NULL>> THEN <<>> ELSE value)
        \o Assigned

\* PropertyLinkList::set1Value, which ends in PropertyListsT::set1Value
LinkList_set1Value_calls(S, p, idx, value) ==
    LET list == S.props[p].lValueList
        inside == idx >= 0 /\ idx < Len(list)
    IN IF inside /\ list[idx + 1] = value THEN <<>>
       ELSE BackLinkCalls(S, p, IF inside THEN <<list[idx + 1]>> ELSE <<>>,
                          <<value>>)
                \o Assigned

\* PropertyLinkSub::setValue
LinkSub_setValue_calls(S, p, lValue) ==
    <<Hook("aboutToSetValue")>>
        \o BackLinkCalls(S, p, <<S.props[p].pcLinkSub>>, <<lValue>>)
        \o <<Hook("assign"), Hook("hasSetValue")>>

\* PropertyLinkSubList::setValue(lValue, SubName) and
\* PropertyLinkSubList::setValue(lValue, SubList)
LinkSubList_setValue_calls(S, p, lValue) ==
    BackLinkCalls(S, p, S.props[p].lValueList, <<lValue>>) \o Assigned

\* PropertyLinkSubList::setValues
LinkSubList_setValues_calls(S, p, lValue) ==
    BackLinkCalls(S, p, S.props[p].lValueList, lValue) \o Assigned

\* PropertyLinkSubList::addValue
LinkSubList_addValue_calls(S, p, obj, reset) ==
    BackLinkCalls(S, p,
                  IF reset
                  THEN SelectSeq(S.props[p].lValueList, LAMBDA v : v = obj)
                  ELSE <<>>,
                  <<obj>>)
        \o Assigned

\* the setter has run and left R; its calls are kept in call unless it
\* threw
Hooked(R, op, p, calls) ==
    Do([R EXCEPT !.call = [op |-> op, prop |-> p,
                           calls |-> IF R.thrown THEN <<>> ELSE calls]])

\* one property is in use at a time
Alone(p) == \A q \in PropIds \ {p} : props[q] = InitProp(q)

HLinkSetValue ==
    /\ Alone("Link")
    /\ \E v \in TargetsOrNull :
           /\ Keeps
           /\ Hooked(Link_setValue(Cur, "Link", v), "setValue", "Link",
                     Link_setValue_calls(Cur, "Link", v))

HListSetValues ==
    /\ Alone("List")
    /\ \E v \in SeqsUpTo(Targets, MaxLen) \cup {<<NULL>>} :
           /\ Keeps
           /\ Hooked(LinkList_setValues(Cur, "List", v), "setValues", "List",
                     LinkList_setValues_calls(Cur, "List", v))

HListSet1Value ==
    /\ Alone("List")
    /\ \E v \in Targets, idx \in -1..(MaxLen - 1) :
           /\ Keeps
           /\ idx < Len(props["List"].lValueList)
           /\ idx = -1 => Len(props["List"].lValueList) < MaxLen
           /\ Hooked(LinkList_set1Value(Cur, "List", idx, v), "set1Value",
                     "List", LinkList_set1Value_calls(Cur, "List", idx, v))

HSubSetValue ==
    /\ Alone("Sub")
    /\ \E v \in TargetsOrNull, subs \in FewSubs :
           /\ Keeps
           /\ Hooked(LinkSub_setValue(Cur, "Sub", v, subs, <<>>), "setValue",
                     "Sub", LinkSub_setValue_calls(Cur, "Sub", v))

HSubListSetValue1 ==
    /\ Alone("SubList")
    /\ \E v \in TargetsOrNull, sub \in SubNames :
           /\ Keeps
           /\ Hooked(LinkSubList_setValue1(Cur, "SubList", v, sub),
                     "setValue", "SubList",
                     LinkSubList_setValue_calls(Cur, "SubList", v))

HSubListSetValue ==
    /\ Alone("SubList")
    /\ \E v \in TargetsOrNull, subs \in FewSubs :
           /\ Keeps
           /\ Hooked(LinkSubList_setValue(Cur, "SubList", v, subs),
                     "setValue", "SubList",
                     LinkSubList_setValue_calls(Cur, "SubList", v))

HSubListSetValues ==
    /\ Alone("SubList")
    /\ \E pl \in FewPairs :
           /\ Keeps
           /\ Hooked(LinkSubList_setValues(Cur, "SubList", Firsts(pl),
                                           Seconds(pl), <<>>),
                     "setValues", "SubList",
                     LinkSubList_setValues_calls(Cur, "SubList", Firsts(pl)))

HSubListAddValue ==
    /\ Alone("SubList")
    /\ \E v \in TargetsOrNull, subs \in FewSubs, reset \in BOOLEAN :
           /\ Keeps
           /\ Len(props["SubList"].lValueList) + Len(subs) <= MaxSubs
           /\ Hooked(LinkSubList_addValue(Cur, "SubList", v, subs, reset),
                     "addValue", "SubList",
                     LinkSubList_addValue_calls(Cur, "SubList", v, reset))

NextHooks ==
    \/ HLinkSetValue
    \/ HListSetValues
    \/ HListSet1Value
    \/ HSubSetValue
    \/ HSubListSetValue1
    \/ HSubListSetValue
    \/ HSubListSetValues
    \/ HSubListAddValue

SpecHooks == Init /\ [][NextHooks]_vars

BackLinkEvs == {"_removeBackLink", "_addBackLink"}

\* in the calls c every backlink update comes after aboutToSetValue, and
\* hasSetValue comes after every backlink update and the assignment
HooksAround(c) ==
    \A i \in 1..Len(c) :
        /\ c[i].ev \in BackLinkEvs
               => \E j \in 1..(i - 1) : c[j].ev = "aboutToSetValue"
        /\ c[i].ev \in BackLinkEvs \cup {"assign"}
               => \E j \in (i + 1)..Len(c) : c[j].ev = "hasSetValue"

\* C13: every value-replacing setter fires aboutToSetValue before it adds
\* or removes any backlink, and hasSetValue only after the new targets are
\* installed and the backlinks re-added
C13_HooksAroundBackLinks ==
    call.op # "none" => HooksAround(call.calls)

--------------------------------------------------------------------------
\* The notifications of an aggregating property (PropertyXLinkSubList,
\* PropertyXLinkContainer) while DocInfo::attach and
\* DocInfo::slotDeleteDocument work through its child links.

Parents == XSubListIds \cup ContainerIds

\* how often the parent's aboutToSetValue runs when a child link calls
\* PropertyXLink::aboutToSetValue, which hands over to
\* parentProp->aboutToSetChildValue: PropertyXLinkSubList calls
\* aboutToSetValue() unless a signaller is counting (none is, in a slot),
\* PropertyXLinkContainer does not notify
aboutToSetChildValue_calls(parent) == IF parent \in XSubListIds THEN 1 ELSE 0

\* the same for PropertyXLink::hasSetValue and hasSetChildValue
hasSetChildValue_calls(parent) == IF parent \in XSubListIds THEN 1 ELSE 0

\* the calls of parent's hooks for a group of k child links of which the
\* links in acting call their own hooks
GroupCalls(parent, group, acting) ==
    [k |-> Cardinality(group),
     about |-> IF group = {} THEN 0
               ELSE 1 + Cardinality(acting) * aboutToSetChildValue_calls(parent),
     has |-> IF group = {} THEN 0
             ELSE 1 + Cardinality(acting) * hasSetChildValue_calls(parent)]

\* DocInfo::attach, the loop over parentLinks: the group of parent is its
\* child links without target; restoreLink runs for those whose object is
\* in the document
attach_calls(S, open, path, doc, parent) ==
    GroupCalls(parent,
        {l \in S.DocInfoMap[path].links :
            S.props[l].pcLink = NULL /\ parentProp(l) = parent},
        {l \in S.DocInfoMap[path].links :
            /\ S.props[l].pcLink = NULL /\ parentProp(l) = parent
            /\ getObject(open, doc, S.props[l].objectName) # NULL})

\* DocInfo::slotFinishRestoreDocument of the descriptor at the path of doc
slotFinishRestoreDocument_calls(S, open, doc, parent) ==
    IF getFullPath(getFileName(doc)) \in DOMAIN S.DocInfoMap
       /\ S.DocInfoMap[getFullPath(getFileName(doc))].pcDoc = NULL
    THEN attach_calls(S, open, getFullPath(getFileName(doc)), doc, parent)
    ELSE GroupCalls(parent, {}, {})

\* DocInfo::slotDeleteDocument, the loop over parentLinks: the group of
\* parent is its child links owned outside doc; detach acts on those that
\* have a target
slotDeleteDocument_calls(S, doc, parent) ==
    LET path == getFullPath(getFileName(doc))
    IN IF path \in DOMAIN S.DocInfoMap /\ S.DocInfoMap[path].pcDoc = doc
       THEN GroupCalls(parent,
                {l \in S.DocInfoMap[path].links :
                    /\ getDocument(getContainer(l)) # doc
                    /\ parentProp(l) = parent},
                {l \in S.DocInfoMap[path].links :
                    /\ getDocument(getContainer(l)) # doc
                    /\ parentProp(l) = parent
                    /\ S.props[l].docInfo # NoInfo
                    /\ S.props[l].pcLink # NULL})
       ELSE GroupCalls(parent, {}, {})

BatchObjects == {"X", "Y"}
BatchDeps == UNION {[d -> BOOLEAN] : d \in SUBSET BatchObjects}

BXSubListAddValue ==
    /\ "Ext" \in openDocs
    /\ \E obj \in BatchObjects :
           /\ XSubChildOf(obj) \notin alive
           /\ Do(XLinkSubList_addValue(Cur, openDocs, "XSubList", obj, <<>>,
                                       FALSE))
           /\ alive' = alive \cup {XSubChildOf(obj)}
           /\ UNCHANGED <<destroy, openDocs>>

BUpdateDeps ==
    /\ "Ext" \in openDocs
    /\ \E deps \in BatchDeps :
           DoContainer(XLinkContainer_updateDeps(Cur, openDocs, "XC", deps))

BOpenDocument ==
    /\ "Ext" \notin openDocs
    /\ openDocs' = openDocs \cup {"Ext"}
    /\ Do([FinishRestoreDocument(Cur, openDocs \cup {"Ext"}, "Ext",
                                 DOMAIN DocInfoMap)
              EXCEPT !.call =
                  [op |-> "finishRestore",
                   hooks |-> [q \in Parents |->
                       slotFinishRestoreDocument_calls(
                           Cur, openDocs \cup {"Ext"}, "Ext", q)]]])
    /\ UNCHANGED <<alive, destroy>>

BCloseDocument ==
    /\ "Ext" \in openDocs
    /\ openDocs' = openDocs \ {"Ext"}
    /\ Do([DeleteDocument(Cur, "Ext", DOMAIN DocInfoMap)
              EXCEPT !.backLinks =
                         [o \in Objects |->
                             IF getDocument(o) = "Ext" THEN {} ELSE @[o]],
                     !.call =
                         [op |-> "deleteDocument",
                          hooks |-> [q \in Parents |->
                              slotDeleteDocument_calls(Cur, "Ext", q)]]])
    /\ UNCHANGED <<alive, destroy>>

NextBatch ==
    \/ BXSubListAddValue
    \/ BUpdateDeps
    \/ BOpenDocument
    \/ BCloseDocument

SpecBatch == Init /\ [][NextBatch]_vars

\* the hooks of parent q ran once each if it had child links in the batch
OncePerGroup(q) ==
    call.hooks[q].k >= 1 => call.hooks[q].about = 1 /\ call.hooks[q].has = 1

\* C14: when DocInfo::attach or DocInfo::slotDeleteDocument processes
\* k >= 1 child links of the same aggregating parent property, the
\* parent's aboutToSetValue and hasSetValue each fire exactly once for the
\* group, whatever k is
C14_OnePairPerGroup ==
    call.op \in {"finishRestore", "deleteDocument"}
        => \A q \in Parents : OncePerGroup(q)

--------------------------------------------------------------------------
\* Setters given a target that is not attached to a document (U) or that
\* lives in another document (X) than the owner.

RejectTargets == {"B", "X", "U"}
RejectLists == SeqsUpTo(RejectTargets, MaxLen)
RejectPairs == SeqsUpTo(RejectTargets \X SubNames, MaxSubs)

\* the setter op has been called on p with the objects objs and left R
Set(R, op, p, objs) ==
    Do([R EXCEPT !.call = [op |-> op, prop |-> p, objs |-> objs]])

RLinkSetValue ==
    /\ Alone("Link")
    /\ \E v \in RejectTargets \cup {NULL} :
           /\ Keeps
           /\ Set(Link_setValue(Cur, "Link", v), "Link::setValue", "Link",
                  {v})

RListSetValues ==
    /\ Alone("List")
    /\ \E v \in RejectLists :
           /\ Keeps
           /\ Set(LinkList_setValues(Cur, "List", v), "LinkList::setValues",
                  "List", SeqToSet(v))

RListSet1Value ==
    /\ Alone("List")
    /\ \E v \in RejectTargets, idx \in -1..(MaxLen - 1) :
           /\ Keeps
           /\ idx < Len(props["List"].lValueList)
           /\ idx = -1 => Len(props["List"].lValueList) < MaxLen
           /\ Set(LinkList_set1Value(Cur, "List", idx, v),
                  "LinkList::set1Value", "List", {v})

RSubSetValue ==
    /\ Alone("Sub")
    /\ \E v \in RejectTargets \cup {NULL}, subs \in FewSubs :
           /\ Keeps
           /\ Set(LinkSub_setValue(Cur, "Sub", v, subs, <<>>),
                  "LinkSub::setValue", "Sub", {v})

RSubListSetValue1 ==
    /\ Alone("SubList")
    /\ \E v \in RejectTargets \cup {NULL}, sub \in SubNames :
           /\ Keeps
           /\ Set(LinkSubList_setValue1(Cur, "SubList", v, sub),
                  "LinkSubList::setValue", "SubList", {v})

RSubListSetValue ==
    /\ Alone("SubList")
    /\ \E v \in RejectTargets \cup {NULL}, subs \in FewSubs :
           /\ Keeps
           /\ Set(LinkSubList_setValue(Cur, "SubList", v, subs),
                  "LinkSubList::setValue", "SubList", {v})

RSubListSetValues ==
    /\ Alone("SubList")
    /\ \E pl \in RejectPairs :
           /\ Keeps
           /\ Set(LinkSubList_setValues(Cur, "SubList", Firsts(pl),
                                        Seconds(pl), <<>>),
                  "LinkSubList::setValues", "SubList", SeqToSet(Firsts(pl)))

RSubListAddValue ==
    /\ Alone("SubList")
    /\ \E v \in RejectTargets \cup {NULL}, subs \in FewSubs,
          reset \in BOOLEAN :
           /\ Keeps
           /\ Len(props["SubList"].lValueList) + Len(subs) <= MaxSubs
           /\ Set(LinkSubList_addValue(Cur, "SubList", v, subs, reset),
                  "LinkSubList::addValue", "SubList", {v})

NextReject ==
    \/ RLinkSetValue
    \/ RListSetValues
    \/ RListSet1Value
    \/ RSubSetValue
    \/ RSubListSetValue1
    \/ RSubListSetValue
    \/ RSubListSetValues
    \/ RSubListAddValue

SpecReject == Init /\ [][NextReject]_vars

\* a target property p must not take: not attached to a document, or in
\* another document than the owner while LinkAllowExternal is not set
Invalid(p, o) ==
    /\ o # NULL
    /\ \/ ~isAttachedToDocument(o)
       \/ (~LinkAllowExternal(p)
           /\ getDocument(o) # getDocument(getContainer(p)))

\* C15: a setter given a target that is not attached to a document, or
\* that lives in another document while LinkAllowExternal is not set,
\* throws and leaves the targets, the subnames, the shadows and all
\* backlinks as they were
C15_InvalidRejected ==
    [][(\E o \in call'.objs : Invalid(call'.prop, o))
           => /\ result'.thrown
              /\ props' = props
              /\ backLinks' = backLinks]_vars

--------------------------------------------------------------------------
\* External references given the owner of the property as target.

SelfTargets == {"B", "X", "E"}
SelfValues == UNION {[d -> {<<>>}] : d \in SUBSET SelfTargets}

\* the orders a map with these keys may have
Orders(keys) ==
    {s \in SeqsUpTo(keys, Cardinality(keys)) :
        Len(s) = Cardinality(keys) /\ SeqToSet(s) = keys}

\* a step of the list: its child links live exactly while in _Links
DoXSubList(R, objs) ==
    /\ Do([R EXCEPT !.call = [op |-> "XLinkSubList::setValues",
                              prop |-> "XSubList", objs |-> objs]])
    /\ alive' = (alive \ XSubChildIds) \cup SeqToSet(R.props["XSubList"].Links)
    /\ UNCHANGED <<destroy, openDocs>>

SXLinkSetValue ==
    \E p \in ExtLinks, v \in {"A", "B", "E", "X", NULL} :
        /\ Keeps
        /\ v # NULL => getDocument(v) \in openDocs
        /\ Set(XLink_setValue(Cur, openDocs, p, v, <<>>, <<>>),
               "XLink::setValue", p, {v})

SXSubListSetValues ==
    \E values \in SelfValues :
        /\ \A o \in DOMAIN values : getDocument(o) \in openDocs
        /\ \E order \in Orders(DOMAIN values) :
               DoXSubList(XLinkSubList_setValues(Cur, openDocs, "XSubList",
                                                 values, order),
                          DOMAIN values)

NextSelf ==
    \/ SXLinkSetValue
    \/ SXSubListSetValues
    \/ EOpenDocument
    \/ ECloseDocument

SpecSelf == Init /\ [][NextSelf]_vars

\* C16: PropertyXLink::setValue given the owner of the property throws
\* and leaves target, subnames, name, descriptor registration and
\* backlinks as they were; PropertyXLinkSubList::setValues given a map
\* that contains the owner fails and the list of links is as before
C16_SelfLinkRejected ==
    [][/\ (call'.op = "XLink::setValue"
           /\ getContainer(call'.prop) \in call'.objs)
              => /\ result'.thrown
                 /\ props' = props
                 /\ DocInfoMap' = DocInfoMap
                 /\ backLinks' = backLinks
       /\ (call'.op = "XLinkSubList::setValues"
           /\ getContainer(call'.prop) \in call'.objs)
              => /\ result'.thrown
                 /\ props'["XSubList"].Links = props["XSubList"].Links]_vars

--------------------------------------------------------------------------
\* Save and Restore.  A saved property is a record: the tag of its
\* element, the attributes of the element and, in children, the attributes
\* of each element below it.  Attribute values are strings as they are in
\* the file, except count, which is kept as a number.

\* Base::Persistence::encodeAttribute: the characters XML reserves are
\* written as entities
RECURSIVE encodeAttribute(_)
encodeAttribute(s) ==
    IF s = <<>> THEN <<>>
    ELSE (CASE Head(s) = "&" -> <<"&", "a", "m", "p", ";">>
            [] Head(s) = "<" -> <<"&", "l", "t", ";">>
            [] OTHER -> <<Head(s)>>)
         \o encodeAttribute(Tail(s))

\* XMLReader::getAttribute: the parser gives the value with its entities
\* replaced
RECURSIVE getAttribute(_)
getAttribute(s) ==
    IF s = <<>> THEN <<>>
    ELSE IF IsPrefixAt(s, <<"&", "a", "m", "p", ";">>, 1)
    THEN <<"&">> \o getAttribute(Tail0(s, 6))
    ELSE IF IsPrefixAt(s, <<"&", "l", "t", ";">>, 1)
    THEN <<"<">> \o getAttribute(Tail0(s, 5))
    ELSE <<Head(s)>> \o getAttribute(Tail(s))

\* XMLReader::getName: a document is loaded without name mapping
getName(name) == name

\* PropertyLinkBase::importSubName, for a reader without name mapping
importSubName(sub) == sub

\* DocumentObject::getExportName(forced): the name in the document,
\* followed by @ and the name of the document for an object being exported
getExportName(exp, o, forced) ==
    IF ~isAttachedToDocument(o) THEN <<>>
    ELSE IF forced \/ o \in exp
    THEN NameOf(o) \o <<"@", getDocument(o)>>
    ELSE NameOf(o)

\* PropertyLinkBase::exportSubName(output, obj, sub), the loop over the
\* dot-terminated names of sub from position pos; out is what has been
\* written and touched tells whether a name has been replaced
RECURSIVE exportSubNameFrom(_, _, _, _, _, _)
exportSubNameFrom(exp, obj, sub, pos, out, touched) ==
    LET dot == FindChar(sub, ".", pos)
        name == SubSeq(sub, pos, dot)
        sobj == getSubObject(obj, name)
        done == IF touched THEN out \o Tail0(sub, pos) ELSE sub
    IN IF dot = 0 THEN done
       ELSE IF sobj = NULL \/ ~isAttachedToDocument(sobj) THEN done
       ELSE IF sobj \in exp /\ name[1] = "$"
               /\ SubSeq(name, 2, Len(name) - 1) # Label(sobj)
       THEN exportSubNameFrom(exp, sobj, sub, dot + 1,
                out \o getExportName(exp, sobj, TRUE) \o <<"@", ".">>, TRUE)
       ELSE IF sobj \in exp /\ name[1] # "$"
               /\ SubSeq(name, 1, Len(name) - 1) = NameOf(sobj)
       THEN exportSubNameFrom(exp, sobj, sub, dot + 1,
                out \o getExportName(exp, sobj, TRUE) \o <<".">>, TRUE)
       ELSE exportSubNameFrom(exp, sobj, sub, dot + 1, out \o name, touched)

\* PropertyLinkBase::exportSubName(output, obj, sub)
exportSubName(exp, obj, sub) ==
    IF sub = <<>> \/ obj = NULL \/ ~isAttachedToDocument(obj) THEN sub
    ELSE exportSubNameFrom(exp, obj, sub, 1, <<>>, FALSE)

NoAttrs == [a \in {} |-> <<>>]

\* the attributes Save writes for one subname: the old style name (or the
\* subname when there is none) under the attribute named value, then
\* mapped when exporting, shadowed or shadow when not
SaveSub(exp, owner, obj, value, subName, shadow) ==
    LET sub == IF shadow.oldName = <<>> THEN subName ELSE shadow.oldName
    IN IF owner \in exp
       THEN (value :> encodeAttribute(exportSubName(exp, obj, sub)))
            @@ (IF shadow.oldName # <<>> /\ shadow.newName = subName
                THEN "mapped" :> <<"1">> ELSE NoAttrs)
       ELSE (value :> encodeAttribute(sub))
            @@ (IF subName # <<>> /\ sub # subName
                THEN "shadowed" :> encodeAttribute(subName)
                ELSE IF subName # <<>> /\ shadow.newName # <<>>
                THEN "shadow" :> encodeAttribute(shadow.newName)
                ELSE NoAttrs)

\* the subname and the shadow pair Restore reads from the attributes of
\* one element
RestoreSub(attrs, value) ==
    LET old == importSubName(getAttribute(attrs[value]))
    IN IF "shadowed" \in DOMAIN attrs
       THEN [sub |-> importSubName(getAttribute(attrs["shadowed"])),
             shadow |-> [newName |->
                             importSubName(getAttribute(attrs["shadowed"])),
                         oldName |-> old]]
       ELSE [sub |-> old,
             shadow |-> [newName |->
                             IF "shadow" \in DOMAIN attrs
                             THEN importSubName(getAttribute(attrs["shadow"]))
                             ELSE <<>>,
                         oldName |-> old]]

\* PropertyLink::Save
Link_Save(S, p, exp) ==
    [tag |-> "Link",
     attrs |-> "value" :> (IF S.props[p].pcLink # NULL
                           THEN getExportName(exp, S.props[p].pcLink, FALSE)
                           ELSE <<>>),
     children |-> <<>>]

\* PropertyLink::Restore
Link_Restore(S, open, p, rec) ==
    LET name == getName(rec.attrs["value"])
        parent == getContainer(p)
        object == getObject(open, getDocument(parent), name)
    IN IF name # <<>>
       THEN Link_setValue(S, p, IF parent = object THEN NULL ELSE object)
       ELSE Link_setValue(S, p, NULL)

\* the objects the names of a record resolve to in the document doc, in
\* the order of the record (NULL for a name without object)
Resolved(open, doc, children, attr) ==
    [i \in 1..Len(children) |->
        getObject(open, doc, getName(children[i][attr]))]

\* PropertyLinkList::Restore passing on every name it reads, also those
\* without object
LinkList_Restore_unfiltered(S, open, p, rec) ==
    LinkList_setValues(S, p,
        Resolved(open, getDocument(getContainer(p)),
                 SubSeq(rec.children, 1, rec.attrs["count"]), "value"))

\* PropertyLinkList::Restore
LinkList_Restore(S, open, p, rec) ==
    LinkList_setValues(S, p,
        SelectSeq(Resolved(open, getDocument(getContainer(p)),
                           SubSeq(rec.children, 1, rec.attrs["count"]),
                           "value"),
                  LAMBDA child : child # NULL))

\* PropertyLinkSub::Save
LinkSub_Save(S, p, exp) ==
    LET r == S.props[p]
    IN [tag |-> "LinkSub",
        attrs |-> ("value" :> (IF r.pcLinkSub # NULL
                               THEN getExportName(exp, r.pcLinkSub, FALSE)
                               ELSE <<>>))
                  @@ ("count" :> Len(r.cSubList)),
        children |-> [i \in 1..Len(r.cSubList) |->
                         SaveSub(exp, getContainer(p), r.pcLinkSub, "value",
                                 r.cSubList[i], r.ShadowSubList[i])]]

\* PropertyLinkSub::Restore
LinkSub_Restore(S, open, p, rec) ==
    LET name == getName(rec.attrs["value"])
        count == rec.attrs["count"]
        pcObject == IF name # <<>>
                    THEN getObject(open, getDocument(getContainer(p)), name)
                    ELSE NULL
        subs == [i \in 1..count |-> RestoreSub(rec.children[i], "value")]
    IN IF pcObject # NULL
       THEN LinkSub_setValue(S, p, pcObject,
                             [i \in 1..count |-> subs[i].sub],
                             [i \in 1..count |-> subs[i].shadow])
       ELSE LinkSub_setValue(S, p, NULL, <<>>, <<>>)

\* the positions of a list whose object is written by Save
RECURSIVE Saved(_, _)
Saved(objs, i) ==
    IF i > Len(objs) THEN <<>>
    ELSE (IF objs[i] # NULL /\ isAttachedToDocument(objs[i]) THEN <<i>>
          ELSE <<>>)
         \o Saved(objs, i + 1)

\* PropertyLinkSubList::Save
LinkSubList_Save(S, p, exp) ==
    LET r == S.props[p]
        at == Saved(r.lValueList, 1)
    IN [tag |-> "LinkSubList",
        attrs |-> "count" :> Len(at),
        children |-> [k \in 1..Len(at) |->
                         ("obj" :> getExportName(exp, r.lValueList[at[k]],
                                                 FALSE))
                         @@ SaveSub(exp, getContainer(p), r.lValueList[at[k]],
                                    "sub", r.lSubList[at[k]],
                                    r.ShadowSubList[at[k]])]]

\* PropertyLinkSubList::Restore
LinkSubList_Restore(S, open, p, rec) ==
    LET count == rec.attrs["count"]
        objs == Resolved(open, getDocument(getContainer(p)),
                         SubSeq(rec.children, 1, count), "obj")
        at == SelectSeq([i \in 1..count |-> i], LAMBDA i : objs[i] # NULL)
    IN LinkSubList_setValues(S, p,
           [k \in 1..Len(at) |-> objs[at[k]]],
           [k \in 1..Len(at) |-> RestoreSub(rec.children[at[k]], "sub").sub],
           [k \in 1..Len(at) |->
               RestoreSub(rec.children[at[k]], "sub").shadow])

\* Document::LastModifiedDate of an open document
LastModifiedDate(doc) == <<"t">>

\* PropertyXLink::Save, the file attribute: the stored path, or when
\* exporting the absolute path of the file of the target
XLink_SavePath(S, p, exp) ==
    LET r == S.props[p]
        docPath == getFileName(getDocument(getContainer(p)))
        path == IF r.docInfo = DeadInfo THEN <<>>
                ELSE IF r.docInfo # NoInfo THEN r.docInfo
                ELSE IF docPath = <<>> THEN <<>>
                ELSE IF r.filePath # <<>>
                THEN getDocPath(r.filePath).fullPath
                ELSE docPath
    IN IF getContainer(p) \in exp /\ path # <<>> THEN path ELSE r.filePath

\* PropertyXLink::Save
XLink_Save(S, p, exp) ==
    LET r == S.props[p]
        head == IF r.pcLink # NULL /\ getContainer(p) \in exp
                   /\ r.pcLink \in exp
                THEN "name" :> getExportName(exp, r.pcLink, FALSE)
                ELSE ("file" :> encodeAttribute(XLink_SavePath(S, p, exp)))
                     @@ ("stamp" :>
                            (IF r.docInfo \in DOMAIN S.DocInfoMap
                                /\ S.DocInfoMap[r.docInfo].pcDoc # NULL
                             THEN LastModifiedDate(
                                      S.DocInfoMap[r.docInfo].pcDoc)
                             ELSE <<>>))
                     @@ ("name" :> r.objectName)
    IN [tag |-> "XLink",
        attrs |-> IF Len(r.SubList) = 0 THEN head
                  ELSE IF Len(r.SubList) = 1
                  THEN head @@ SaveSub(exp, getContainer(p), r.pcLink, "sub",
                                       r.SubList[1], r.ShadowSubList[1])
                  ELSE head @@ ("count" :> Len(r.SubList)),
        children |-> IF Len(r.SubList) < 2 THEN <<>>
                     ELSE [i \in 1..Len(r.SubList) |->
                              SaveSub(exp, getContainer(p), r.pcLink, "value",
                                      r.SubList[i], r.ShadowSubList[i])]]

\* PropertyXLink::Restore
XLink_Restore(S, open, p, rec) ==
    LET a == rec.attrs
        file == IF "file" \in DOMAIN a THEN getAttribute(a["file"]) ELSE <<>>
        name == IF file = <<>> THEN getName(a["name"]) ELSE a["name"]
        object == IF name # <<>> /\ file = <<>>
                  THEN getObject(open, getDocument(getContainer(p)), name)
                  ELSE NULL
        count == IF "sub" \in DOMAIN a THEN 1
                 ELSE IF "count" \in DOMAIN a THEN a["count"]
                 ELSE 0
        subs == IF "sub" \in DOMAIN a THEN <<RestoreSub(a, "sub")>>
                ELSE [i \in 1..count |-> RestoreSub(rec.children[i], "value")]
    IN IF name = <<>> THEN XLink_setValue(S, open, p, NULL, <<>>, <<>>)
       ELSE IF file # <<>> \/ object = NULL
       THEN XLink_setValueByName(S, open, p, file, name,
                                 [i \in 1..count |-> subs[i].sub],
                                 [i \in 1..count |-> subs[i].shadow])
       ELSE XLink_setValue(S, open, p, object,
                           [i \in 1..count |-> subs[i].sub],
                           [i \in 1..count |-> subs[i].shadow])

--------------------------------------------------------------------------
\* Restore of records that name the owner, an object that is not there, or
\* a file that is not open.

\* Z names no object
RestoreNames == {<<>>, <<"A">>, <<"B">>, <<"Z">>}

LinkRecords ==
    {[tag |-> "Link", attrs |-> "value" :> n, children |-> <<>>] :
        n \in RestoreNames}

ListRecords ==
    {[tag |-> "LinkList", attrs |-> "count" :> Len(c), children |-> c] :
        c \in SeqsUpTo({"value" :> n : n \in {<<"B">>, <<"Z">>}}, MaxLen)}

SubElements == {"value" :> <<"f">>}

SubRecords ==
    {[tag |-> "LinkSub",
      attrs |-> ("value" :> n) @@ ("count" :> Len(c)),
      children |-> c] :
        n \in {<<>>, <<"B">>, <<"Z">>}, c \in [1..MaxSubs -> SubElements]}

SubListRecords ==
    {[tag |-> "LinkSubList", attrs |-> "count" :> Len(c), children |-> c] :
        c \in SeqsUpTo({("obj" :> n) @@ ("sub" :> <<"f">>) :
                           n \in {<<"B">>, <<"Z">>}},
                       MaxLen)}

XLinkRecords ==
    {[tag |-> "XLink", attrs |-> a, children |-> <<>>] :
        a \in {"name" :> n : n \in RestoreNames}
              \cup {("file" :> f) @@ ("stamp" :> <<>>) @@ ("name" :> n) :
                       f \in {<<>>, ExtFile}, n \in {<<"X">>, <<"Z">>}}}

\* external references to an object that is there, to one that is not
\* and to objects of the file of Ext
MissingXLinkRecords ==
    {[tag |-> "XLink", attrs |-> a, children |-> <<>>] :
        a \in {"name" :> n : n \in {<<"B">>, <<"Z">>}}
              \cup {("file" :> ExtFile) @@ ("stamp" :> <<>>) @@ ("name" :> n) :
                       n \in {<<"X">>, <<"Z">>}}}

\* the document a record looks its names up in: the one of the owner, or
\* the one saved as the file of the record
DocOf(p, rec) ==
    IF "file" \in DOMAIN rec.attrs /\ rec.attrs["file"] # <<>>
    THEN (IF getFullPath(getFileName("Ext"))
                = getDocPath(rec.attrs["file"]).fullPath
          THEN "Ext" ELSE NULL)
    ELSE getDocument(getContainer(p))

\* the names of the targets in a record
NamesOf(rec) ==
    CASE rec.tag \in {"Link", "LinkSub"} -> <<rec.attrs["value"]>>
      [] rec.tag = "XLink" -> <<rec.attrs["name"]>>
      [] rec.tag = "LinkList" ->
             [i \in 1..Len(rec.children) |-> rec.children[i]["value"]]
      [] OTHER -> [i \in 1..Len(rec.children) |-> rec.children[i]["obj"]]

\* Restore has run and left R; call keeps the record, its names and the
\* objects they stand for (NULL for a name without object)
Restored(R, open, op, p, rec) ==
    Do([R EXCEPT !.call =
           [op |-> op, prop |-> p, rec |-> rec, names |-> NamesOf(rec),
            objs |-> [i \in 1..Len(NamesOf(rec)) |->
                         IF DocOf(p, rec) = NULL THEN NULL
                         ELSE getObject(open, DocOf(p, rec),
                                        NamesOf(rec)[i])]]])

TLinkRestore ==
    \E p \in LinkIds, rec \in LinkRecords :
        /\ Keeps
        /\ Restored(Link_Restore(Cur, openDocs, p, rec), openDocs,
                    "Link::Restore", p, rec)

MListRestore ==
    \E p \in ListIds, rec \in ListRecords :
        /\ Keeps
        /\ Restored(LinkList_Restore(Cur, openDocs, p, rec), openDocs,
                    "LinkList::Restore", p, rec)

MSubRestore ==
    \E p \in SubIds, rec \in SubRecords :
        /\ Keeps
        /\ Restored(LinkSub_Restore(Cur, openDocs, p, rec), openDocs,
                    "LinkSub::Restore", p, rec)

MSubListRestore ==
    \E p \in SubListIds, rec \in SubListRecords :
        /\ Keeps
        /\ Restored(LinkSubList_Restore(Cur, openDocs, p, rec), openDocs,
                    "LinkSubList::Restore", p, rec)

XLinkRestore(recs) ==
    \E rec \in recs :
        /\ Keeps
        /\ Restored(XLink_Restore(Cur, openDocs, "XLink", rec), openDocs,
                    "XLink::Restore", "XLink", rec)

TXLinkRestore == XLinkRestore(XLinkRecords)

MXLinkRestore == XLinkRestore(MissingXLinkRecords)

NextRestore ==
    \/ TLinkRestore
    \/ TXLinkRestore
    \/ EOpenDocument
    \/ ECloseDocument

SpecRestore == Init /\ [][NextRestore]_vars

NextMissing ==
    \/ MListRestore
    \/ MSubRestore
    \/ MSubListRestore
    \/ MXLinkRestore
    \/ EOpenDocument
    \/ ECloseDocument

SpecMissing == Init /\ [][NextMissing]_vars

RestoreOps ==
    {"Link::Restore", "LinkList::Restore", "LinkSub::Restore",
     "LinkSubList::Restore", "XLink::Restore"}

\* C17: PropertyLink::Restore and PropertyXLink::Restore of a record
\* without file attribute whose name is the name of the owner do not
\* raise and end with no target
C17_SelfNameRestored ==
    (/\ call.op \in {"Link::Restore", "XLink::Restore"}
     /\ "file" \notin DOMAIN call.rec.attrs
     /\ call.names = <<NameOf(getContainer(call.prop))>>)
        => /\ ~result.thrown
           /\ props[call.prop].pcLink = NULL

\* the targets a property holds, in order
TargetSeq(pr, p) ==
    CASE p \in LinkIds \cup XLinkIds ->
             IF pr[p].pcLink = NULL THEN <<>> ELSE <<pr[p].pcLink>>
      [] p \in SubIds ->
             IF pr[p].pcLinkSub = NULL THEN <<>> ELSE <<pr[p].pcLinkSub>>
      [] OTHER -> pr[p].lValueList

\* a name of the record stands for no object
NamesMissing(c) ==
    \E i \in 1..Len(c.names) : c.names[i] # <<>> /\ c.objs[i] = NULL

--------------------------------------------------------------------------
\* Save, Restore of what was saved into a fresh property, Save again.

RoundProps == {"Sub", "SubList", "XLink"}

\* the names a subname, an old name and a new name are taken from
RoundNames == {<<>>, <<"f">>, <<"&">>}
RoundShadows == [newName : RoundNames, oldName : RoundNames]

Save(S, p, exp) ==
    CASE p \in SubIds -> LinkSub_Save(S, p, exp)
      [] p \in SubListIds -> LinkSubList_Save(S, p, exp)
      [] OTHER -> XLink_Save(S, p, exp)

Restore(S, open, p, rec) ==
    CASE p \in SubIds -> LinkSub_Restore(S, open, p, rec)
      [] p \in SubListIds -> LinkSubList_Restore(S, open, p, rec)
      [] OTHER -> XLink_Restore(S, open, p, rec)

\* the property is destructed and a new one constructed in its place
Fresh(S, p) ==
    [(CASE p \in SubIds -> LinkSub_destruct(S, p)
        [] p \in SubListIds -> LinkSubList_destruct(S, p)
        [] OTHER -> XLink_destruct(S, p))
        EXCEPT !.props[p] = InitProp(p)]

\* every target of the property is an object attached to its document,
\* and there is one
Attached(S, p) ==
    /\ TargetSeq(S.props, p) # <<>>
    /\ \A i \in 1..Len(TargetSeq(S.props, p)) :
           /\ TargetSeq(S.props, p)[i] # NULL
           /\ isAttachedToDocument(TargetSeq(S.props, p)[i])

\* one property is looked at at a time: the others are as constructed
Only(p) == \A q \in RoundProps \ {p} : props[q] = InitProp(q)

USubSetValue ==
    /\ Only("Sub")
    /\ Keeps
    /\ \E sub \in RoundNames, shadow \in RoundShadows :
           Set(LinkSub_setValue(Cur, "Sub", "B", <<sub>>, <<shadow>>),
               "setValue", "Sub", {"B"})

USubListSetValues ==
    /\ Only("SubList")
    /\ Keeps
    /\ \E sub \in RoundNames, shadow \in RoundShadows :
           Set(LinkSubList_setValues(Cur, "SubList", <<"B">>, <<sub>>,
                                     <<shadow>>),
               "setValues", "SubList", {"B"})

UXLinkSetValue ==
    /\ Only("XLink")
    /\ Keeps
    /\ \E v \in {"B", "X"}, sub \in RoundNames, shadow \in RoundShadows :
           /\ getDocument(v) \in openDocs
           /\ Set(XLink_setValue(Cur, openDocs, "XLink", v, <<sub>>,
                                 <<shadow>>),
                  "setValue", "XLink", {v})

\* the property is saved, by an owner that is being exported or not; the
\* record is kept in call
USave ==
    \E p \in RoundProps, exporting \in BOOLEAN :
        /\ props[p] # InitProp(p)
        /\ call.op = "setValue" \/ call.op = "setValues"
        /\ call' = [op |-> "Save", prop |-> p,
                    exp |-> IF exporting THEN {getContainer(p)} ELSE {},
                    attached |-> Attached(Cur, p),
                    rec |-> Save(Cur, p,
                                 IF exporting THEN {getContainer(p)} ELSE {})]
        /\ UNCHANGED <<props, alive, backLinks, destroy, LabelMap,
                       ElementRefMap, openDocs, DocInfoMap, pending, result>>

\* Restore of rec into a fresh property has left R: the property is saved
\* again
Reloaded(R, c) ==
    Do([R EXCEPT !.call = [op |-> "Restore", prop |-> c.prop,
                           exp |-> c.exp, attached |-> c.attached,
                           rec |-> c.rec,
                           again |-> Save(R, c.prop, c.exp)]])

URestore ==
    /\ call.op = "Save"
    /\ Keeps
    /\ Reloaded(Restore(Fresh(Cur, call.prop), openDocs, call.prop, call.rec),
                call)

UFresh ==
    \E p \in RoundProps :
        /\ props[p] # InitProp(p)
        /\ Keeps
        /\ Do([Fresh(Cur, p) EXCEPT !.call = NoCall])

NextRound ==
    \/ USubSetValue
    \/ USubListSetValues
    \/ UXLinkSetValue
    \/ USave
    \/ URestore
    \/ UFresh
    \/ EOpenDocument
    \/ ECloseDocument

SpecRound == Init /\ [][NextRound]_vars

\* C19: for a PropertyLinkSub, PropertyLinkSubList or PropertyXLink whose
\* targets are all attached, Save, Restore of the record into a fresh
\* property of the same owner and Save again write the same record
C19_SaveRestoreSave ==
    (call.op = "Restore" /\ call.attached)
        => /\ ~result.thrown
           /\ call.again = call.rec

--------------------------------------------------------------------------
\* Properties without target.

EmptyProps == {"Sub", "SubList", "XLink"}

\* the subnames a property reports (getSubValues)
SubValues(pr, p) ==
    CASE p \in SubIds -> pr[p].cSubList
      [] p \in SubListIds -> pr[p].lSubList
      [] OTHER -> pr[p].SubList

NoTarget(pr, p) ==
    \A i \in 1..Len(TargetSeq(pr, p)) : TargetSeq(pr, p)[i] = NULL

VSubSetValue ==
    \E v \in {NULL, "B"}, subs \in FewSubs :
        /\ Keeps
        /\ Set(LinkSub_setValue(Cur, "Sub", v, subs, <<>>),
               "LinkSub::setValue", "Sub", {v})

VSubListSetValue ==
    \E v \in {NULL, "B"}, subs \in FewSubs :
        /\ Keeps
        /\ Set(LinkSubList_setValue(Cur, "SubList", v, subs),
               "LinkSubList::setValue", "SubList", {v})

VXLinkSetValue ==
    \E v \in {NULL, "B"}, subs \in FewSubs :
        /\ Keeps
        /\ Set(XLink_setValue(Cur, openDocs, "XLink", v, subs, <<>>),
               "XLink::setValue", "XLink", {v})

\* the property is saved and the record restored into a fresh property
VReload ==
    \E p \in EmptyProps :
        /\ Keeps
        /\ Set(Restore(Fresh(Cur, p), openDocs, p, Save(Cur, p, {})),
               "Restore", p, {})

NextEmpty ==
    \/ VSubSetValue
    \/ VSubListSetValue
    \/ VXLinkSetValue
    \/ VReload

SpecEmpty == Init /\ [][NextEmpty]_vars

\* a record without target name and without subname
EmptyRecord(rec) ==
    /\ rec.children = <<>>
    /\ "sub" \notin DOMAIN rec.attrs
    /\ \A a \in DOMAIN rec.attrs \cap {"value", "name"} : rec.attrs[a] = <<>>

\* C20: a property without target reports no subname, whatever setter
\* left it so; what it saves is an empty record, and Restore of that
\* record gives a property without target, subname and shadow
C20_NoTargetNoSubs ==
    \A p \in EmptyProps :
        NoTarget(props, p)
            => /\ SubValues(props, p) = <<>>
               /\ EmptyRecord(Save(Cur, p, {}))
               /\ LET after == Restore(Fresh(Cur, p), openDocs, p,
                                       Save(Cur, p, {})).props
                  IN /\ TargetSeq(after, p) = <<>>
                     /\ SubValues(after, p) = <<>>
                     /\ after[p].ShadowSubList = <<>>

--------------------------------------------------------------------------
\* Element-shadow resolution with an element map.  The resolver
\* (GeoFeature::resolveElement), the element cache and the name tests of
\* Data:: are not part of PropertyLinks.cpp: the answer of the resolver is
\* an input of the update, the name tests follow their documented form.  The
\* mapped name of an element is written as the one character ";".

\* Data::findElementName: what follows the last dot, with the mapped name
\* in front of it when there is one
findElementName(subname) ==
    LET dot == RFindChar(subname, ".", Len(subname))
        before == RFindChar(subname, ".", dot - 1)
    IN IF dot = 0 THEN subname
       ELSE IF dot > 1 /\ subname[before + 1] = ";"
       THEN Tail0(subname, before + 1)
       ELSE Tail0(subname, dot + 1)

\* Data::hasMappedElementName
hasMappedElementName(subname) ==
    LET element == findElementName(subname)
    IN element # <<>> /\ element[1] = ";"

\* Data::hasMissingElement / GeoFeature::hasMissingElement: the element
\* after the last dot carries the missing prefix
hasMissingElement(subname) ==
    LET element == Tail0(subname, RFindChar(subname, ".", Len(subname)) + 1)
    IN element # <<>> /\ element[1] = "?"

\* _updateElementReference, lines 521-545: the subname of a found element
\* in the forward direction
patchedSub(sub, shadow) ==
    LET pos2 == RFindChar(shadow.newName, ".", Len(shadow.newName))
        pos == RFindChar(sub, ".", Len(sub))
        tail == Tail0(shadow.newName, pos2 + 1)
    IN IF pos2 = 0 THEN sub
       ELSE IF pos = pos2
       THEN IF Tail0(sub, pos + 1) # tail THEN SubSeq(sub, 1, pos) \o tail
            ELSE sub
       ELSE IF sub # shadow.oldName THEN shadow.oldName
       ELSE sub

\* _updateElementReference, lines 506-545: the subname left for the shadow
\* pair taken, once a mapped subname has got the new name (sub1)
resolvedSub(sub1, shadow1, missing, reverse) ==
    IF reverse
    THEN IF shadow1.newName # <<>> /\ hasMappedElementName(sub1)
         THEN shadow1.newName
         ELSE shadow1.oldName
    ELSE IF missing
    THEN IF sub1 # shadow1.newName THEN shadow1.oldName ELSE sub1
    ELSE patchedSub(sub1, shadow1)

\* _updateElementReference, lines 480-545, for an element that is found
\* and a shadow pair that is taken: the pair is shadow1, missing tells
\* that the element is missing and has no substitute
takenShadow(sub, shadow1, missing, reverse, notify) ==
    [sub |-> resolvedSub(IF ~missing /\ shadow1.newName # <<>>
                            /\ hasMappedElementName(sub)
                         THEN shadow1.newName
                         ELSE sub,
                         shadow1, missing, reverse),
     shadow |-> shadow1, ret |-> TRUE, about |-> notify, geo |-> TRUE]

\* _updateElementReference, lines 450-500: the pair the resolver gave, or
\* the one of the substitute the element cache found (searched)
foundElement(sub, shadow, reverse, notify, r, missing0, searched) ==
    takenShadow(sub,
                IF searched THEN r.elementName2
                ELSE IF missing0
                THEN [shadow EXCEPT !.oldName = r.elementName.oldName]
                ELSE r.elementName,
                ~searched /\ missing0, reverse, notify)

\* PropertyLinkBase::_updateElementReference(feature, obj, sub, shadow,
\* reverse, notify) for an attached obj, after the resolver gave r:
\* r.found (ret, geo and element all there), r.elementName, r.names (what
\* the element cache finds for the old element) and r.elementName2 (the
\* answer for the substitute).  sameGeo is feature == geo.  Gives the
\* subname and the shadow it leaves, the value it returns and whether it
\* called aboutToSetValue.
LinkBase_updateElementReference(sub, shadow, sameGeo, reverse, notify, r) ==
    IF ~r.found
    THEN [sub |-> sub,
          shadow |-> IF r.elementName.oldName # <<>>
                     THEN [shadow EXCEPT !.oldName = r.elementName.oldName]
                     ELSE shadow,
          ret |-> FALSE, about |-> FALSE, geo |-> FALSE]
    ELSE IF ~reverse /\ r.elementName.newName = <<>>
    THEN [sub |-> sub,
          shadow |-> [shadow EXCEPT !.oldName = r.elementName.oldName],
          ret |-> FALSE, about |-> FALSE, geo |-> TRUE]
    ELSE IF ~reverse /\ shadow = r.elementName
    THEN [sub |-> sub, shadow |-> shadow, ret |-> FALSE, about |-> FALSE,
          geo |-> TRUE]
    ELSE foundElement(sub, shadow, reverse, notify, r,
             hasMissingElement(r.elementName.oldName),
             /\ sameGeo
             /\ hasMissingElement(r.elementName.oldName) \/ reverse
             /\ ~hasMissingElement(findElementName(shadow.oldName))
             /\ r.names # <<>>)

\* the loop of updateLinkReference over the subnames 1..i: the subnames
\* and shadows it leaves, whether one was touched, whether
\* aboutToSetValue was called and whether a geometry was found
RECURSIVE updateLinkReferenceUpTo(_, _, _, _, _, _, _)
updateLinkReferenceUpTo(subs, shadows, sameGeo, reverse, notify, answers, i) ==
    IF i = 0
    THEN [subs |-> <<>>, shadows |-> <<>>, touched |-> FALSE,
          about |-> FALSE, geo |-> FALSE]
    ELSE LET prev == updateLinkReferenceUpTo(subs, shadows, sameGeo, reverse,
                                             notify, answers, i - 1)
             u == LinkBase_updateElementReference(
                      subs[i], shadows[i], sameGeo, reverse,
                      notify /\ ~prev.touched, answers[i])
         IN [subs |-> Append(prev.subs, u.sub),
             shadows |-> Append(prev.shadows, u.shadow),
             touched |-> prev.touched \/ u.ret,
             about |-> prev.about \/ u.about,
             geo |-> prev.geo \/ u.geo]

\* PropertyLinkBase::updateLinkReference(prop, feature, reverse, notify,
\* link, subs, mapped, shadows) with a feature, an owner that is not
\* restoring and nothing in mapped; answers[i] is what the resolver gives
\* for subs[i]
updateLinkReference(link, subs, shadows0, sameGeo, reverse, notify, answers) ==
    LET shadows == [i \in 1..Len(subs) |->
                       IF i <= Len(shadows0) THEN shadows0[i]
                       ELSE EmptyShadow]
    IN IF link = NULL \/ ~isAttachedToDocument(link)
       THEN [subs |-> subs, shadows |-> shadows, touched |-> FALSE,
             about |-> FALSE, geo |-> FALSE]
       ELSE updateLinkReferenceUpTo(subs, shadows, sameGeo, reverse, notify,
                                    answers, Len(subs))

\* PropertyLinkSub::updateElementReference, once updateLinkReference gave
\* u
LinkSub_referenceUpdated(S, p, feature, geo, reverse, notify, answers, u) ==
    [S EXCEPT !.props[p].cSubList = u.subs,
              !.props[p].ShadowSubList = u.shadows,
              !.props[p].ElementRefs = IF u.geo THEN @ \cup {geo} ELSE @,
              !.ElementRefMap = IF u.geo THEN @ \cup {<<geo, p>>} ELSE @,
              !.ret = u.touched,
              !.call = [op |-> "updateElementReference", prop |-> p,
                        feature |-> feature, reverse |-> reverse,
                        answers |-> answers,
                        calls |-> (IF u.about THEN <<"aboutToSetValue">>
                                   ELSE <<>>)
                                  \o (IF u.touched /\ notify
                                      THEN <<"hasSetValue">> ELSE <<>>)]]

\* PropertyLinkSub::updateElementReference(feature, reverse, notify) with
\* a feature; geo is the object the resolver finds the elements in
LinkSub_updateElementReference(S, p, feature, geo, reverse, notify, answers) ==
    LinkSub_referenceUpdated(S, p, feature, geo, reverse, notify, answers,
        updateLinkReference(S.props[p].pcLinkSub, S.props[p].cSubList,
                            S.props[p].ShadowSubList, feature = geo, reverse,
                            notify, answers))

\* The names the resolver is asked about and answers with: positional
\* names ("C.f"), mapped names (";" before the element) and missing
\* elements ("?" before the element).
ElemSubs == {<<"C", ".", "f">>, <<"C", ".", ";", ".", "f">>}
ElemNew == {<<>>, <<"C", ".", ";", ".", "g">>}
ElemOld == {<<"C", ".", "g">>, <<"C", ".", "?", "f">>}
ElemShadows == [newName : ElemNew, oldName : ElemOld \cup {<<>>}]
\* what the resolver answers: the element under its mapped and positional
\* name, under a positional name alone, in C or in D, or missing
ElemNames ==
    [newName : ElemNew, oldName : ElemOld]
        \cup {[newName |-> <<"C", ".", "g">>, oldName |-> <<"C", ".", "g">>],
              [newName |-> <<"D", ".", "g">>, oldName |-> <<"D", ".", "g">>]}
ElemAnswers ==
    [found : BOOLEAN, elementName : ElemNames,
     names : {<<>>, <<"g">>},
     elementName2 : {[newName |-> <<"C", ".", ";", ".", "g">>,
                      oldName |-> <<"C", ".", "g">>]}]

GSubSetValue ==
    /\ Keeps
    /\ \E sub \in ElemSubs, shadow \in ElemShadows :
           Set(LinkSub_setValue(Cur, "Sub", "B", <<sub>>, <<shadow>>),
               "setValue", "Sub", {"B"})

\* c is a run of the resolution with the feature, direction and answers
\* of the run before it
SameRun(before, c) ==
    /\ before.op = "updateElementReference"
    /\ before.feature = c.feature
    /\ before.reverse = c.reverse
    /\ before.answers = c.answers

\* the element map of C or of D has changed
GSubUpdateElementReference ==
    /\ Keeps
    /\ props["Sub"].pcLinkSub # NULL
    /\ \E feature \in {"C", "D"}, reverse \in BOOLEAN, r \in ElemAnswers :
           \E again \in BOOLEAN :
               LET R == LinkSub_updateElementReference(
                            Cur, "Sub", feature, "C", reverse, TRUE, <<r>>)
               IN /\ again = SameRun(call, R.call)
                  /\ Do([R EXCEPT !.call =
                            [op |-> @.op, prop |-> @.prop,
                             feature |-> @.feature, reverse |-> @.reverse,
                             answers |-> @.answers, calls |-> @.calls,
                             again |-> again]])

NextElement ==
    \/ GSubSetValue
    \/ GSubUpdateElementReference

SpecElement == Init /\ [][NextElement]_vars

\* C21: a second run of the element-shadow resolution right after a first
\* one, with the same feature, direction and resolver answers, changes no
\* subname and no shadow pair, fires no pre/post-change hook and reports
\* false
C21_SecondRunIdempotent ==
    [][(call'.op = "updateElementReference" /\ call'.again)
           => /\ props'["Sub"].cSubList = props["Sub"].cSubList
              /\ props'["Sub"].ShadowSubList = props["Sub"].ShadowSubList
              /\ call'.calls = <<>>
              /\ result'.ret = FALSE]_vars

\* C22: when the resolution finds the element missing and the element
\* cache has no substitute, the reference is kept: the target is as
\* before, nothing is thrown, and the visible subname afterwards is not
\* empty and is the positional (old style) name the resolver gave, also
\* when it was a mapped name before
C22_MissingKeepsPositional ==
    [][(/\ call'.op = "updateElementReference"
        /\ call'.answers[1].found
        /\ call'.answers[1].names = <<>>
        /\ hasMissingElement(call'.answers[1].elementName.oldName)
        /\ result'.ret = TRUE)
           => /\ props'["Sub"].pcLinkSub = props["Sub"].pcLinkSub
              /\ ~result'.thrown
              /\ props'["Sub"].cSubList[1] # <<>>
              /\ props'["Sub"].cSubList[1]
                     = call'.answers[1].elementName.oldName]_vars

\* the text of a name up to and including its last separator
PrefixOf(name) == SubSeq(name, 1, RFindChar(name, ".", Len(name)))

\* C30: a forward run that finds the element (not missing, no substitute
\* searched) on a positional subname replaces only what follows the last
\* separator by what follows the last separator of the resolved new name
\* when the two prefixes are equal, and replaces the subname by the whole
\* resolved positional name when the prefixes differ in any way
C30_PatchOnlyEqualPrefix ==
    [][(/\ call'.op = "updateElementReference"
        /\ ~call'.reverse
        /\ result'.ret = TRUE
        /\ call'.answers[1].names = <<>>
        /\ ~hasMissingElement(call'.answers[1].elementName.oldName)
        /\ props["Sub"].cSubList # <<>>
        /\ ~hasMappedElementName(props["Sub"].cSubList[1])
        /\ PrefixOf(call'.answers[1].elementName.newName) # <<>>)
           => LET sub == props["Sub"].cSubList[1]
                  elementName == call'.answers[1].elementName
              IN props'["Sub"].cSubList[1] =
                     IF PrefixOf(sub) = PrefixOf(elementName.newName)
                     THEN PrefixOf(sub)
                              \o Tail0(elementName.newName,
                                       Len(PrefixOf(sub)) + 1)
                     ELSE elementName.oldName]_vars

--------------------------------------------------------------------------
\* PropertyXLink::checkRestore.  The stamp stored on the link, the flags
\* LinkSilentRestore and LinkAllowPartial of the link, and the
\* LastModifiedDate and the PartialDoc status of the attached document are
\* inputs of the check.

\* PropertyXLink::checkRestore(msg): 0, 1 (time stamp changed) or 2 (link
\* not restored) in ret, written as a string; a const method
XLink_checkRestore(S, p, stamp, silent, partial, modified, partialDoc) ==
    LET pr == S.props[p]
        hasInfo == pr.docInfo \in DOMAIN S.DocInfoMap
        pcDoc == IF hasInfo THEN S.DocInfoMap[pr.docInfo].pcDoc ELSE NULL
    IN [S EXCEPT !.ret =
           IF ~hasInfo
           THEN IF pr.pcLink = NULL /\ pr.objectName # <<>> THEN "2" ELSE "0"
           ELSE IF pr.pcLink = NULL
           THEN IF silent THEN "0"
                ELSE IF partial /\ (pcDoc = NULL \/ partialDoc) THEN "0"
                ELSE "2"
           ELSE IF pcDoc = NULL \/ stamp = modified THEN "0"
           ELSE "1"]

Stamps == {<<"t">>, <<"u">>}

TXLinkSetValueByName ==
    \E filename \in {<<>>, ExtFile}, name \in ExtNames \cup {<<>>, <<"B">>} :
        /\ Keeps
        /\ Stepped(XLink_setValueByName(Cur, openDocs, "XLink", filename,
                                        name, <<>>, <<>>),
                   "setValue", "XLink", name)

TXLinkCheckRestore ==
    \E stamp \in Stamps, modified \in Stamps,
       silent \in BOOLEAN, partial \in BOOLEAN, partialDoc \in BOOLEAN :
        /\ Keeps
        /\ Do([XLink_checkRestore(Cur, "XLink", stamp, silent, partial,
                                  modified, partialDoc)
                  EXCEPT !.call = [op |-> "checkRestore", prop |-> "XLink",
                                   stamp |-> stamp, modified |-> modified,
                                   silent |-> silent, partial |-> partial,
                                   partialDoc |-> partialDoc]])

NextStale ==
    \/ TXLinkSetValueByName
    \/ TXLinkCheckRestore
    \/ EOpenDocument
    \/ ECloseDocument

SpecStale == Init /\ [][NextStale]_vars

\* what the check is to return for the link pr under the inputs c
StaleStatus(pr, infos, c) ==
    LET attached == /\ pr.docInfo \in DOMAIN infos
                    /\ infos[pr.docInfo].pcDoc # NULL
        absent == /\ pr.docInfo \in DOMAIN infos
                  /\ infos[pr.docInfo].pcDoc = NULL
        excused == \/ c.silent
                   \/ c.partial /\ (absent \/ (attached /\ c.partialDoc))
    IN IF pr.pcLink # NULL /\ attached /\ c.stamp # c.modified THEN "1"
       ELSE IF pr.pcLink = NULL /\ pr.objectName # <<>> /\ ~excused THEN "2"
       ELSE "0"

\* C23: checkRestore returns 1 exactly when the link has a live target,
\* its descriptor has an attached document and the stored stamp differs
\* from the document's modification stamp; 2 when a named target is
\* unresolved and not excused by the silent-restore or partial-load flags;
\* 0 otherwise; and it changes no property and no registry
C23_CheckRestore ==
    [][call'.op = "checkRestore"
           => /\ result'.ret = StaleStatus(props'["XLink"], DocInfoMap', call')
              /\ props' = props
              /\ DocInfoMap' = DocInfoMap
              /\ backLinks' = backLinks
              /\ LabelMap' = LabelMap
              /\ ElementRefMap' = ElementRefMap]_vars

--------------------------------------------------------------------------
\* getLinks and getLinksTo.  getLinks is taken without the list of
\* subnames (subs = nullptr), getLinksTo without a subname (subname =
\* nullptr); an ObjectIdentifier is the property and the index it names
\* (-1 when it names the whole property).

Hidden(S, p) == ScopeOf(S, p) = "Hidden"

Identifier(p, index) == [prop |-> p, index |-> index]

\* the attached objects of a list, in order
AttachedOf(objs) ==
    SelectSeq(objs, LAMBDA o : o # NULL /\ isAttachedToDocument(o))

\* PropertyLink::getLinks
Link_getLinks(S, p, all) ==
    IF all \/ ~Hidden(S, p) THEN AttachedOf(<<S.props[p].pcLink>>) ELSE <<>>

\* PropertyLink::getLinksTo
Link_getLinksTo(S, p, obj, all) ==
    IF ~all /\ Hidden(S, p) THEN <<>>
    ELSE IF obj # NULL /\ S.props[p].pcLink = obj THEN <<Identifier(p, -1)>>
    ELSE <<>>

\* PropertyLinkList::getLinks
LinkList_getLinks(S, p, all) ==
    IF all \/ ~Hidden(S, p) THEN AttachedOf(S.props[p].lValueList) ELSE <<>>

\* PropertyLinkList::getLinksTo
LinkList_getLinksTo(S, p, obj, all) ==
    LET list == S.props[p].lValueList
        hits == {i \in 1..Len(list) : list[i] = obj}
    IN IF obj = NULL \/ (~all /\ Hidden(S, p)) \/ hits = {} THEN <<>>
       ELSE <<Identifier(p, (CHOOSE i \in hits : \A j \in hits : i <= j) - 1)>>

\* PropertyLinkSub::getLinks
LinkSub_getLinks(S, p, all) ==
    IF all \/ ~Hidden(S, p) THEN AttachedOf(<<S.props[p].pcLinkSub>>)
    ELSE <<>>

\* PropertyLinkBase::_getLinksTo with subname = nullptr
getLinksTo(p) == <<Identifier(p, -1)>>

\* PropertyLinkSub::getLinksTo
LinkSub_getLinksTo(S, p, obj, all) ==
    IF (all \/ ~Hidden(S, p)) /\ obj # NULL /\ obj = S.props[p].pcLinkSub
    THEN getLinksTo(p)
    ELSE <<>>

\* PropertyLinkSubList::getLinks
LinkSubList_getLinks(S, p, all) ==
    IF all \/ ~Hidden(S, p) THEN AttachedOf(S.props[p].lValueList) ELSE <<>>

\* PropertyLinkSubList::getLinksTo
LinkSubList_getLinksTo(S, p, obj, all) ==
    LET list == S.props[p].lValueList
        at == SelectSeq([k \in 1..Len(list) |-> k], LAMBDA k : list[k] = obj)
    IN IF obj = NULL \/ (~all /\ Hidden(S, p)) THEN <<>>
       ELSE [k \in 1..Len(at) |-> Identifier(p, at[k] - 1)]

\* PropertyXLink::getLinks
XLink_getLinks(S, p, all) ==
    IF all \/ ~Hidden(S, p) THEN AttachedOf(<<S.props[p].pcLink>>) ELSE <<>>

\* PropertyXLink::getLinksTo
XLink_getLinksTo(S, p, obj, all) ==
    IF (all \/ ~Hidden(S, p)) /\ obj # NULL /\ obj = S.props[p].pcLink
    THEN getLinksTo(p)
    ELSE <<>>

\* the targets of the links of a PropertyXLinkSubList, in order
LinkValues(S, p) ==
    [i \in 1..Len(S.props[p].Links) |-> S.props[S.props[p].Links[i]].pcLink]

\* PropertyXLinkSubList::getLinks
XLinkSubList_getLinks(S, p, all) ==
    IF all \/ ~Hidden(S, p) THEN AttachedOf(LinkValues(S, p)) ELSE <<>>

\* PropertyXLinkSubList::getLinksTo; _getLinksToList with subname =
\* nullptr adds one identifier of the property for each link to obj
XLinkSubList_getLinksTo(S, p, obj, all) ==
    IF ~all /\ ~Hidden(S, p) THEN <<>>
    ELSE LET hits == SelectSeq(LinkValues(S, p),
                               LAMBDA o : obj # NULL /\ obj = o)
         IN [k \in 1..Len(hits) |-> Identifier(p, -1)]

\* getLinks / getLinksTo of the class of p
getLinks(S, p, all) ==
    CASE p \in LinkIds -> Link_getLinks(S, p, all)
      [] p \in ListIds -> LinkList_getLinks(S, p, all)
      [] p \in SubIds -> LinkSub_getLinks(S, p, all)
      [] p \in SubListIds -> LinkSubList_getLinks(S, p, all)
      [] p \in XLinkIds -> XLink_getLinks(S, p, all)
      [] p \in XSubListIds -> XLinkSubList_getLinks(S, p, all)

getLinksToOf(S, p, obj, all) ==
    CASE p \in LinkIds -> Link_getLinksTo(S, p, obj, all)
      [] p \in ListIds -> LinkList_getLinksTo(S, p, obj, all)
      [] p \in SubIds -> LinkSub_getLinksTo(S, p, obj, all)
      [] p \in SubListIds -> LinkSubList_getLinksTo(S, p, obj, all)
      [] p \in XLinkIds -> XLink_getLinksTo(S, p, obj, all)
      [] p \in XSubListIds -> XLinkSubList_getLinksTo(S, p, obj, all)

QueryProps ==
    LinkIds \cup ListIds \cup SubIds \cup SubListIds \cup XLinkIds
        \cup XSubListIds

\* only the properties of ps are in use
InUse(ps) == \A q \in PropIds \ ps : props[q] = InitProp(q)

QLinkSetValue ==
    \E p \in LinkIds, v \in TargetsOrNull :
        /\ InUse({p})
        /\ Keeps
        /\ Set(Link_setValue(Cur, p, v), "setValue", p, {v})

QListSetValues ==
    \E v \in SeqsUpTo(Targets, MaxLen) :
        /\ InUse({"List"})
        /\ Keeps
        /\ Set(LinkList_setValues(Cur, "List", v), "setValues", "List",
               SeqToSet(v))

QSubSetValue ==
    \E v \in TargetsOrNull, subs \in FewSubs :
        /\ InUse({"Sub"})
        /\ Keeps
        /\ Set(LinkSub_setValue(Cur, "Sub", v, subs, <<>>), "setValue",
               "Sub", {v})

QSubListSetValues ==
    \E pl \in PairLists :
        /\ InUse({"SubList"})
        /\ Keeps
        /\ Set(LinkSubList_setValues(Cur, "SubList", Firsts(pl),
                                     Seconds(pl), <<>>),
               "setValues", "SubList", SeqToSet(Firsts(pl)))

QXLinkSetValue ==
    \E p \in XLinkIds, v \in TargetsOrNull :
        /\ InUse({p})
        /\ Keeps
        /\ Set(XLink_setValue(Cur, openDocs, p, v, <<>>, <<>>), "setValue",
               p, {v})

QXSubListSetValues ==
    \E values \in UNION {[d -> {<<>>}] : d \in SUBSET Targets} :
        /\ InUse(XSubListIds \cup XSubChildIds)
        /\ \E order \in Orders(DOMAIN values) :
               DoXSubList(XLinkSubList_setValues(Cur, openDocs, "XSubList",
                                                 values, order),
                          DOMAIN values)

QGetLinks ==
    \E p \in QueryProps, all \in BOOLEAN :
        /\ Keeps
        /\ Do([Cur EXCEPT !.call = [op |-> "getLinks", prop |-> p,
                                    all |-> all,
                                    out |-> getLinks(Cur, p, all)]])

QGetLinksTo ==
    \E p \in QueryProps, obj \in TargetsOrNull, all \in BOOLEAN :
        /\ Keeps
        /\ Do([Cur EXCEPT !.call = [op |-> "getLinksTo", prop |-> p,
                                    obj |-> obj, all |-> all,
                                    out |-> getLinksToOf(Cur, p, obj, all)]])

NextQuery ==
    \/ QLinkSetValue
    \/ QListSetValues
    \/ QSubSetValue
    \/ QSubListSetValues
    \/ QXLinkSetValue
    \/ QXSubListSetValues
    \/ QGetLinks
    \/ QGetLinksTo

SpecQuery == Init /\ [][NextQuery]_vars

\* C24: for every variant, getLinks and getLinksTo called with all = false
\* report nothing for a property of Hidden scope and report what they
\* report with all = true for a property of any other scope
C24_HiddenOnlyWithAll ==
    /\ (call.op = "getLinks" /\ ~call.all)
           => call.out = IF Scope(call.prop) = "Hidden" THEN <<>>
                         ELSE getLinks(Cur, call.prop, TRUE)
    /\ (call.op = "getLinksTo" /\ ~call.all)
           => call.out = IF Scope(call.prop) = "Hidden" THEN <<>>
                         ELSE getLinksToOf(Cur, call.prop, call.obj, TRUE)

--------------------------------------------------------------------------
\* isSame

\* getSubNameWithStyle
getSubNameWithStyle(subName, shadow, newStyle) ==
    IF ~newStyle
    THEN IF shadow.oldName # <<>> THEN shadow.oldName ELSE subName
    ELSE IF shadow.newName # <<>>
    THEN LET pos == RFindChar(shadow.newName, ".", Len(shadow.newName))
         IN IF hasMissingElement(shadow.oldName) /\ pos # 0
            THEN SubSeq(shadow.newName, 1, pos) \o shadow.oldName
            ELSE shadow.newName
    ELSE subName

\* getSubValues(newStyle) of PropertyLinkSub and PropertyLinkSubList
getSubValues(subs, shadows, newStyle) ==
    [i \in 1..Len(shadows) |->
        getSubNameWithStyle(subs[i], shadows[i], newStyle)]

\* getLinks(objs, all = true, &subs, newStyle) of the class of p: the
\* objects and the subnames it leaves in its two lists
getLinksSubs(S, p, newStyle) ==
    LET pr == S.props[p]
    IN CASE p \in LinkIds ->
                [objs |-> Link_getLinks(S, p, TRUE), subs |-> <<>>]
         [] p \in ListIds ->
                [objs |-> LinkList_getLinks(S, p, TRUE), subs |-> <<>>]
         [] p \in SubIds ->
                [objs |-> LinkSub_getLinks(S, p, TRUE),
                 subs |-> IF LinkSub_getLinks(S, p, TRUE) # <<>>
                          THEN getSubValues(pr.cSubList, pr.ShadowSubList,
                                            newStyle)
                          ELSE <<>>]
         [] p \in SubListIds ->
                [objs |-> LinkSubList_getLinks(S, p, TRUE),
                 subs |-> getSubValues(pr.lSubList, pr.ShadowSubList,
                                       newStyle)]

\* other.isDerivedFrom<PropertyLinkBase>(): every property of the model is
\* a link property
isDerivedFromLinkBase(q) == q \in PropIds

\* PropertyLinkBase::isSame(other)
isSame(S, p, other) ==
    IF other = p THEN TRUE
    ELSE IF isDerivedFromLinkBase(other) \/ ScopeOf(S, p) # ScopeOf(S, other)
    THEN FALSE
    ELSE getLinksSubs(S, p, FALSE) = getLinksSubs(S, other, TRUE)

SameProps == {"Link", "LinkHidden", "List", "Sub", "SubList"}

\* at most one property besides p is in use
OneBeside(p) ==
    Cardinality({q \in PropIds \ {p} : props[q] # InitProp(q)}) <= 1

KLinkSetValue ==
    \E p \in LinkIds, v \in TargetsOrNull :
        /\ OneBeside(p)
        /\ Keeps
        /\ Set(Link_setValue(Cur, p, v), "setValue", p, {v})

KListSetValues ==
    \E v \in SeqsUpTo(Targets, MaxLen) :
        /\ OneBeside("List")
        /\ Keeps
        /\ Set(LinkList_setValues(Cur, "List", v), "setValues", "List",
               SeqToSet(v))

KSubSetValue ==
    \E v \in TargetsOrNull, subs \in FewSubs :
        /\ OneBeside("Sub")
        /\ Keeps
        /\ Set(LinkSub_setValue(Cur, "Sub", v, subs, <<>>), "setValue",
               "Sub", {v})

KSubListSetValues ==
    \E pl \in FewPairs :
        /\ OneBeside("SubList")
        /\ Keeps
        /\ Set(LinkSubList_setValues(Cur, "SubList", Firsts(pl),
                                     Seconds(pl), <<>>),
               "setValues", "SubList", SeqToSet(Firsts(pl)))

KIsSame ==
    \E p \in SameProps, other \in SameProps :
        /\ Keeps
        /\ Do([Cur EXCEPT !.ret = isSame(Cur, p, other),
                          !.call = [op |-> "isSame", prop |-> p,
                                    other |-> other]])

NextSame ==
    \/ KLinkSetValue
    \/ KListSetValues
    \/ KSubSetValue
    \/ KSubListSetValues
    \/ KIsSame

SpecSame == Init /\ [][NextSame]_vars

\* C25: isSame(P, Q) for two link properties of the same scope is true
\* exactly when P and Q hold the same sequence of targets and the same
\* sequence of subnames, both taken in the same (new) style; two distinct
\* properties with equal targets and subnames compare equal
C25_SameLinksSameSubs ==
    (/\ call.op = "isSame"
     /\ Scope(call.prop) = Scope(call.other))
        => result.ret = (getLinksSubs(Cur, call.prop, TRUE)
                             = getLinksSubs(Cur, call.other, TRUE))

--------------------------------------------------------------------------
\* The dependencies of a PropertyXLinkContainer and the backlinks they
\* leave.

\* the maps updateDeps is given: objects of the owner's document, of the
\* external document, and the owner itself
OwnerDeps == UNION {[d -> BOOLEAN] : d \in SUBSET {"A", "B", "C", "X", "Y"}}

PUpdateDeps ==
    \E deps \in OwnerDeps :
        /\ \A o \in DOMAIN deps : getDocument(o) \in openDocs
        /\ DoContainer([XLinkContainer_updateDeps(Cur, openDocs, "XC", deps)
                           EXCEPT !.call = [op |-> "updateDeps",
                                            prop |-> "XC", deps |-> deps]])

PClearDeps ==
    /\ Live("XC")
    /\ DoContainer([XLinkContainer_clearDeps(Cur, openDocs, "XC")
                       EXCEPT !.call = [op |-> "clearDeps", prop |-> "XC"]])

NextDeps ==
    \/ PUpdateDeps
    \/ PClearDeps
    \/ DOpenDocument

SpecDeps == Init /\ [][NextDeps]_vars

\* C26: after updateDeps or clearDeps on the container of the attached
\* owner A, which holds no other link, every attached object other than A
\* has A in its backlink set exactly when it is a dependency that is not
\* hidden; a hidden dependency leaves no backlink, also once it is removed
C26_BackLinkIffVisibleDep ==
    call.op \in {"updateDeps", "clearDeps"}
        => \A obj \in Objects \ {"A"} :
               (isAttachedToDocument(obj) /\ getDocument(obj) \in openDocs)
                   => (("A" \in backLinks[obj])
                          <=> (/\ obj \in DOMAIN props["XC"].Deps
                               /\ ~props["XC"].Deps[obj]))

--------------------------------------------------------------------------
\* The renaming of a label inside one subname that passes the renamed
\* object more than once.

\* subnames from B: "$x." resolves to C, "$x.$x." to B again, and
\* "$x.$x.$x." to C again
RenameSubNames ==
    {<<"f">>, <<"$", "x", ".", "f">>,
     <<"$", "x", ".", "$", "x", ".", "f">>,
     <<"$", "x", ".", "$", "x", ".", "$", "x", ".", "f">>,
     <<"C", ".", "$", "x", ".", "$", "x", ".", "f">>,
     <<"B", ".", "$", "x", ".", "f">>,
     <<"$", "x", ".", "B", ".", "$", "x", ".", "f">>,
     <<"$", "d", ".", "$", "x", ".", "f">>}

FSubSetValue ==
    /\ call = NoCall
    /\ \E v \in {"B", "D"}, subs \in SeqsUpTo(RenameSubNames, MaxSubs) :
        Keeps /\ Do(LinkSub_setValue(Cur, "Sub", v, subs, <<>>))

FSubCopyOnLabelChange ==
    /\ call = NoCall
    /\ \E obj \in {"B", "C", "D"}, newLabel \in NewLabels :
        /\ Keeps
        /\ Do(LinkSub_CopyOnLabelChange(Cur, "Sub", obj, LabelRef(obj),
                                        newLabel))

NextRename ==
    \/ FSubSetValue
    \/ FSubCopyOnLabelChange
    \/ CDropCopy

SpecRename == Init /\ [][NextRename]_vars

\* sub with the label replaced by newLabel at each of the positions, from
\* the last one to the first
RECURSIVE RewrittenAt(_, _, _, _)
RewrittenAt(sub, positions, len, newLabel) ==
    IF positions = {} THEN sub
    ELSE LET last == CHOOSE p \in positions : \A q \in positions : q <= p
         IN RewrittenAt(Replace(sub, last + 1, len, newLabel),
                        positions \ {last}, len, newLabel)

\* C27: in the copy CopyOnLabelChange returns, each subname has every
\* occurrence of "$oldLabel." that resolves to the renamed object replaced
\* by "$newLabel.", two of them if two resolve, and every other occurrence
\* as it was
C27_EveryResolvingOccurrence ==
    (call.op = "CopyOnLabelChange" /\ call.out # <<>>)
        => \A i \in 1..Len(props["Sub"].cSubList) :
               call.out[1].cSubList[i] =
                   RewrittenAt(props["Sub"].cSubList[i],
                               Occurs(props["Sub"].pcLinkSub,
                                      props["Sub"].cSubList[i],
                                      call.args.obj),
                               Len(Label(call.args.obj)),
                               call.args.newLabel)

--------------------------------------------------------------------------
\* The exchange of oldObj and newObj in tryReplaceLink.

\* how the loop of tryReplaceLink over the dots of the subname ends: with
\* a replacement, with none, or with the call that exchanges oldObj and
\* newObj
RECURSIVE WalkExit(_, _, _, _, _, _, _)
WalkExit(obj, parent, oldObj, newObj, sub, from, prev) ==
    LET dot == FindChar(sub, ".", from)
        pos == dot + 1
        sobj == getSubObject(obj, SubSeq(sub, 1, dot))
    IN IF dot = 0 THEN "none"
       ELSE IF CharAt(sub, pos) = "."
       THEN WalkExit(obj, parent, oldObj, newObj, sub, pos, prev)
       ELSE IF sobj = NULL THEN "none"
       ELSE IF sobj = oldObj
       THEN (IF prev = parent THEN "replaced" ELSE "none")
       ELSE IF sobj = newObj THEN "exchange"
       ELSE IF prev = parent THEN "none"
       ELSE WalkExit(obj, parent, oldObj, newObj, sub, pos, sobj)

\* the calls of tryReplaceLink to itself that one call leads to
RECURSIVE Exchanges(_, _, _, _, _)
Exchanges(obj, parent, oldObj, newObj, subname) ==
    IF obj = NULL \/ oldObj = obj THEN 0
    ELSE IF newObj = obj
    THEN 1 + Exchanges(obj, parent, newObj, oldObj, subname)
    ELSE IF subname = <<>> THEN 0
    ELSE IF WalkExit(obj, parent, oldObj, newObj, subname, 1, obj)
                = "exchange"
    THEN 1 + Exchanges(obj, parent, newObj, oldObj, subname)
    ELSE 0

\* subnames from A and from B, through the objects B and C that refer to
\* each other, by name and by label, with an empty segment, and with no
\* path
WalkSubNames ==
    {<<>>, <<"f">>, <<"B", ".", "f">>, <<"B", ".", "C", ".", "f">>,
     <<"B", ".", "$", "x", ".", "f">>, <<"C", ".", "B", ".", "f">>,
     <<"B", ".", ".", "C", ".">>, <<"B", ".", "C", ".", "B", ".">>}

JTryReplaceLink ==
    /\ call = NoCall
    /\ \E owner \in {"A", "E"}, obj \in {NULL, "A", "B", "C"},
          parent \in {"A", "B", "E"}, oldObj \in {"A", "B", "C", "D"},
          newObj \in {"A", "B", "C", "D"}, sub \in WalkSubNames :
        /\ Keeps
        /\ Do(Returned(Cur, "tryReplaceLink", NULL,
                  [owner |-> owner, obj |-> obj, parent |-> parent,
                   oldObj |-> oldObj, newObj |-> newObj, sub |-> sub,
                   exchanges |-> Exchanges(obj, parent, oldObj, newObj, sub)],
                  tryReplaceLink(owner, obj, parent, oldObj, newObj, sub)))

NextExchange ==
    \/ JTryReplaceLink
    \/ CDropCopy

SpecExchange == Init /\ [][NextExchange]_vars

\* the dots of sub whose path, walked from obj, resolves to o
Hits(obj, sub, o) ==
    {d \in Dots(sub) : getSubObject(obj, SubSeq(sub, 1, d)) = o}

\* the reference points at newObj already: obj is newObj, or a segment
\* resolves to newObj before any resolves to oldObj
NewObjFirst(obj, oldObj, newObj, sub) ==
    \/ obj = newObj
    \/ \E d \in Hits(obj, sub, newObj) :
           \A e \in Hits(obj, sub, oldObj) : d < e

\* C28: when obj is newObj, or a segment of the subname resolves to newObj
\* before any resolves to oldObj, tryReplaceLink returns what the call
\* with oldObj and newObj exchanged returns; and no call, whatever obj,
\* oldObj, newObj and the subname, exchanges the two more than once
C28_ExchangeSymmetric ==
    call.op = "tryReplaceLink" =>
        /\ call.args.exchanges <= 1
        /\ (call.args.obj # NULL
              /\ NewObjFirst(call.args.obj, call.args.oldObj,
                             call.args.newObj, call.args.sub))
               => call.out = tryReplaceLink(call.args.owner, call.args.obj,
                                 call.args.parent, call.args.newObj,
                                 call.args.oldObj, call.args.sub)

\* a call that met newObj on the path, exchanged the two once and replaced
\* the segment
C28_Witness ==
    /\ call.op = "tryReplaceLink"
    /\ call.args.obj \notin {NULL, call.args.oldObj, call.args.newObj}
    /\ call.args.oldObj # call.args.newObj
    /\ NewObjFirst(call.args.obj, call.args.oldObj, call.args.newObj,
                   call.args.sub)
    /\ call.args.exchanges = 1
    /\ call.out.first # NULL
    /\ call.out.second # call.args.sub

--------------------------------------------------------------------------
\* The replacement of oldObj in a list that holds newObj already.

ListTargets == {"B", "C", "D"}

OListSetValues ==
    /\ call = NoCall
    /\ \E v \in SeqsUpTo(ListTargets, MaxLen + 1) \ {<<>>} :
        Keeps /\ Do(LinkList_setValues(Cur, "List", v))

OListReplace ==
    /\ call = NoCall
    /\ props["List"].lValueList # <<>>
    /\ \E parent \in {"A", "E"}, oldObj \in ListTargets,
          newObj \in ListTargets :
        /\ Keeps
        /\ Do(LinkList_CopyOnLinkReplace(Cur, "List", parent, oldObj, newObj))

NextTakeOver ==
    \/ OListSetValues
    \/ OListReplace
    \/ CDropCopy

SpecTakeOver == Init /\ [][NextTakeOver]_vars

\* list with newObj at the place of its entry oldObj and the entries that
\* were newObj before removed
RECURSIVE TakenOver(_, _, _)
TakenOver(list, oldObj, newObj) ==
    IF list = <<>> THEN <<>>
    ELSE (CASE Head(list) = oldObj -> <<newObj>>
            [] Head(list) = newObj -> <<>>
            [] OTHER -> <<Head(list)>>)
         \o TakenOver(Tail(list), oldObj, newObj)

\* how often obj is an entry of list
Entries(list, obj) == Cardinality({i \in 1..Len(list) : list[i] = obj})

\* C29: PropertyLinkList::CopyOnLinkReplace with the owner as parent, on a
\* list that holds oldObj and holds newObj already, returns a list with
\* the former entries of newObj removed, newObj once, at the place oldObj
\* had, oldObj gone, and the other entries in their order
C29_NewObjTakesOver ==
    (/\ call.op = "CopyOnLinkReplace"
     /\ call.args.parent = getContainer("List")
     /\ call.args.oldObj # call.args.newObj
     /\ Entries(props["List"].lValueList, call.args.oldObj) = 1
     /\ Entries(props["List"].lValueList, call.args.newObj) >= 1)
        => /\ call.out # <<>>
           /\ call.out[1].lValueList =
                  TakenOver(props["List"].lValueList, call.args.oldObj,
                            call.args.newObj)

--------------------------------------------------------------------------
\* The label registry against the subnames of the properties.

\* PropertyLinkBase::importSubName with a reader that maps names: whether
\* it sets restoreLabel, which it does for a segment that is not empty and
\* ends with the marker "@"
importRestoresLabel(sub) ==
    \E dot \in Dots(sub) :
        /\ dot > SegStart(sub, dot)
        /\ sub[dot - 1] = "@"

\* PropertyLinkBase::restoreLabelReference, its loop over the dots: next
\* is where the present segment starts, sub where the text not yet written
\* starts and ss the text written so far
RECURSIVE RestoreLabelWalk(_, _, _, _, _)
RestoreLabelWalk(obj, subname, next, sub, ss) ==
    LET dot == FindChar(subname, ".", next)
        sobj == getSubObject(obj, SubSeq(subname, 1, dot - 2) \o <<".">>)
    IN IF dot = 0 THEN [failed |-> FALSE, sub |-> sub, ss |-> ss]
       ELSE IF dot # next /\ subname[dot - 1] # "@"
       THEN RestoreLabelWalk(obj, subname, dot + 1, sub, ss)
       ELSE IF sobj = NULL THEN [failed |-> TRUE, sub |-> sub, ss |-> ss]
       ELSE RestoreLabelWalk(obj, subname, dot + 1, dot + 1,
                ss \o SubSeq(subname, sub, next - 1) \o <<"$">>
                   \o Label(sobj) \o <<".">>)

\* PropertyLinkBase::restoreLabelReference: the subname and the shadow pair
\* it leaves
restoreLabelReference(obj, subname, shadow) ==
    LET w == RestoreLabelWalk(obj, subname, 1, 1, <<>>)
        count == w.sub - 1
    IN IF w.failed \/ w.sub = 1 THEN [sub |-> subname, shadow |-> shadow]
       ELSE [sub |-> w.ss \o Tail0(subname, w.sub),
             shadow |->
                 [oldName |-> IF Len(shadow.oldName) >= count
                              THEN w.ss \o Tail0(shadow.oldName, count + 1)
                              ELSE shadow.oldName,
                  newName |-> IF Len(shadow.newName) >= count
                              THEN w.ss \o Tail0(shadow.newName, count + 1)
                              ELSE shadow.newName]]

\* PropertyLinkSub::afterRestore; restoreLabel is the flag LinkRestoreLabel
\* that Restore left
LinkSub_afterRestore(S, p, restoreLabel) ==
    LET r == S.props[p]
        shadows == [i \in 1..Len(r.cSubList) |->
                       IF i <= Len(r.ShadowSubList) THEN r.ShadowSubList[i]
                       ELSE EmptyShadow]
        restored == [i \in 1..Len(r.cSubList) |->
                        restoreLabelReference(r.pcLinkSub, r.cSubList[i],
                                              shadows[i])]
    IN IF ~restoreLabel \/ r.pcLinkSub = NULL
          \/ ~isAttachedToDocument(r.pcLinkSub)
       THEN [S EXCEPT !.props[p].ShadowSubList = shadows]
       ELSE [S EXCEPT !.props[p].cSubList =
                          [i \in 1..Len(r.cSubList) |-> restored[i].sub],
                      !.props[p].ShadowSubList =
                          [i \in 1..Len(r.cSubList) |-> restored[i].shadow]]

\* subnames with a label reference, with a name that carries the marker
\* of a label to restore, and with neither
RegistrySubNames ==
    {<<"f">>, <<"$", "x", ".", "f">>, <<"C", "@", ".", "f">>}

RegistrySubRecords ==
    {[tag |-> "LinkSub",
      attrs |-> ("value" :> <<"B">>) @@ ("count" :> Len(c)),
      children |-> c] :
        c \in [1..MaxSubs -> {"value" :> s : s \in RegistrySubNames}]}

RegSubSetValue ==
    /\ call.op # "Restore"
    /\ \E v \in {"B", "D"}, subs \in SeqsUpTo(RegistrySubNames, MaxSubs) :
           /\ Keeps
           /\ Set(LinkSub_setValue(Cur, "Sub", v, subs, <<>>), "setValue",
                  "Sub", {v})

RegSubListSetValues ==
    /\ call.op # "Restore"
    /\ \E pl \in SeqsUpTo({"B", "D"} \X RegistrySubNames, MaxLen) :
           /\ Keeps
           /\ Set(LinkSubList_setValues(Cur, "SubList", Firsts(pl),
                                        Seconds(pl), <<>>),
                  "setValues", "SubList", SeqToSet(Firsts(pl)))

RegSubListSetSize ==
    /\ call.op # "Restore"
    /\ \E newSize \in 0..MaxLen :
           /\ Keeps
           /\ Set(LinkSubList_setSize(Cur, "SubList", newSize), "setSize",
                  "SubList", {})

RegBreakLink ==
    /\ call.op # "Restore"
    /\ \E p \in {"Sub", "SubList"}, obj \in {"B", "D"} :
           /\ Keeps
           /\ Set(IF p = "Sub" THEN LinkSub_breakLink(Cur, p, obj, FALSE)
                  ELSE LinkSubList_breakLink(Cur, p, obj, FALSE),
                  "breakLink", p, {obj})

\* PropertyLinkSub::Restore from a record read with name mapping (names
\* map to themselves); afterRestore follows before any other call
RegSubRestore ==
    /\ call.op # "Restore"
    /\ \E rec \in RegistrySubRecords :
           /\ Keeps
           /\ Do([LinkSub_Restore(Cur, openDocs, "Sub", rec) EXCEPT
                     !.call = [op |-> "Restore", prop |-> "Sub",
                               restoreLabel |->
                                   \E i \in 1..Len(rec.children) :
                                       importRestoresLabel(
                                           rec.children[i]["value"])]])

RegSubAfterRestore ==
    /\ call.op = "Restore"
    /\ Keeps
    /\ Do([LinkSub_afterRestore(Cur, "Sub", call.restoreLabel) EXCEPT
              !.call = [op |-> "afterRestore", prop |-> "Sub"]])

NextRegistry ==
    \/ RegSubSetValue
    \/ RegSubListSetValues
    \/ RegSubListSetSize
    \/ RegBreakLink
    \/ RegSubRestore
    \/ RegSubAfterRestore

SpecRegistry == Init /\ [][NextRegistry]_vars

\* the labels of the "$label." tokens of a subname: a "$" that starts a
\* path segment, up to the dot that ends the segment
LabelTokens(sub) ==
    {SubSeq(sub, SegStart(sub, d) + 1, d - 1) :
        d \in {e \in Dots(sub) : sub[SegStart(sub, e)] = "$"}}

\* the labels under which p is registered
RegisteredLabels(p) == {lm[1] : lm \in {x \in LabelMap : x[2] = p}}

\* C31: between calls, every property with a container is registered in
\* the label registry under exactly the labels of the "$label." tokens of
\* its present subnames: none is missing once afterRestore has rewritten
\* the marked segments, none is stale after setValue, setSize or breakLink
C31_RegistryMatchesSubnames ==
    call.op # "Restore" =>
        \A p \in {"Sub", "SubList"} :
            RegisteredLabels(p) =
                UNION {LabelTokens(SubsOf(p, props[p])[i]) :
                           i \in 1..Len(SubsOf(p, props[p]))}

--------------------------------------------------------------------------
\* updateElementReferences while the hooks it fires change the registry.

\* PropertyXLink::updateElementReference, once updateLinkReference gave u
XLink_referenceUpdated(S, p, feature, geo, reverse, notify, answers, u) ==
    [S EXCEPT !.props[p].SubList = u.subs,
              !.props[p].ShadowSubList = u.shadows,
              !.props[p].ElementRefs = IF u.geo THEN @ \cup {geo} ELSE @,
              !.ElementRefMap = IF u.geo THEN @ \cup {<<geo, p>>} ELSE @,
              !.ret = u.touched,
              !.call = [op |-> "updateElementReference", prop |-> p,
                        feature |-> feature, reverse |-> reverse,
                        answers |-> answers,
                        calls |-> (IF u.about THEN <<"aboutToSetValue">>
                                   ELSE <<>>)
                                  \o (IF u.touched /\ notify
                                      THEN <<"hasSetValue">> ELSE <<>>)]]

\* PropertyXLink::updateElementReference(feature, reverse, notify) with a
\* feature
XLink_updateElementReferenceOf(S, p, feature, geo, reverse, notify, answers) ==
    XLink_referenceUpdated(S, p, feature, geo, reverse, notify, answers,
        updateLinkReference(S.props[p].pcLink, S.props[p].SubList,
                            S.props[p].ShadowSubList, feature = geo, reverse,
                            notify, answers))

\* prop->updateElementReference(feature, reverse, true) for the class of
\* p; the resolver answers r for every subname
Prop_updateElementReference(S, p, feature, reverse, r) ==
    IF p \in SubIds
    THEN LinkSub_updateElementReference(S, p, feature, feature, reverse,
             TRUE, Rep(Len(S.props[p].cSubList), r))
    ELSE XLink_updateElementReferenceOf(S, p, feature, feature, reverse,
             TRUE, Rep(Len(S.props[p].SubList), r))

\* what the code run by a hook does to the property q: nothing, destroy
\* it, or give it an empty value, which unregisters it
HookEffects == {"none", "destroy", "unregister"}

Hook_effect(W, open, cb, q) ==
    CASE cb = "destroy" ->
             [W EXCEPT !.S = [(IF q \in SubIds THEN LinkSub_destruct(W.S, q)
                               ELSE XLink_destruct(W.S, q))
                                 EXCEPT !.props[q] = InitProp(q)],
                       !.live = @ \ {q},
                       !.destroyed = @ \cup {q}]
      [] cb = "unregister" ->
             [W EXCEPT !.S = IF q \in SubIds
                             THEN LinkSub_setValue(W.S, q, NULL, <<>>, <<>>)
                             ELSE XLink_setValue(W.S, open, q, NULL, <<>>,
                                                 <<>>),
                       !.unregistered = @ \cup {q}]
      [] OTHER -> W

\* one turn of the loop of updateElementReferences for a property that is
\* there: S1 is what its updateElementReference left; when that fired a
\* hook, the hook acts on the property that comes next in the snapshot
Turn(W, open, order, i, S1, cb) ==
    IF S1.call.calls # <<>> /\ i < Len(order) /\ order[i + 1] \in W.live
    THEN Hook_effect([W EXCEPT !.S = S1, !.visited = Append(@, order[i])],
                     open, cb, order[i + 1])
    ELSE [W EXCEPT !.S = S1, !.visited = Append(@, order[i])]

\* PropertyLinkBase::updateElementReferences, its loop over the snapshot
\* order from index i on.  A property a hook destroyed is a dangling
\* pointer in the snapshot: what prop->getContainer() reads from it is
\* undefined, so the turn is taken (stale) or skipped.
RECURSIVE ElementRefsLoop(_, _, _, _, _, _, _, _, _)
ElementRefsLoop(W, open, order, i, feature, reverse, r, cb, stale) ==
    IF i > Len(order) THEN W
    ELSE ElementRefsLoop(
             IF order[i] \notin W.live
             THEN (IF stale THEN [W EXCEPT !.visited = Append(@, order[i])]
                   ELSE W)
             ELSE Turn(W, open, order, i,
                       Prop_updateElementReference(W.S, order[i], feature,
                                                   reverse, r),
                       cb),
             open, order, i + 1, feature, reverse, r, cb, stale)

\* PropertyLinkBase::updateElementReferences(feature, reverse): order is
\* the order in which the snapshot of the registry entry is walked
updateElementReferences(S, live, open, order, feature, reverse, r, cb, stale) ==
    IF feature = NULL \/ ~isAttachedToDocument(feature) \/ order = <<>>
    THEN [S |-> S, live |-> live, visited |-> <<>>, destroyed |-> {},
          unregistered |-> {}]
    ELSE ElementRefsLoop([S |-> S, live |-> live, visited |-> <<>>,
                          destroyed |-> {}, unregistered |-> {}],
                         open, order, 1, feature, reverse, r, cb, stale)

ReentrantProps == {"Sub", "XLink"}
ReentrantSubs == {<<"C", ".", "f">>, <<"f">>}
ReentrantAnswers ==
    {[found |-> f,
      elementName |-> [newName |-> <<"C", ".", ";", ".", "g">>,
                       oldName |-> <<"C", ".", "g">>],
      names |-> <<>>,
      elementName2 |-> [newName |-> <<"C", ".", ";", ".", "g">>,
                        oldName |-> <<"C", ".", "g">>]] : f \in BOOLEAN}

ReSubSetValue ==
    /\ Live("Sub")
    /\ \E v \in {"B", "D"}, subs \in SeqsUpTo(ReentrantSubs, MaxSubs) :
           /\ Keeps
           /\ Set(LinkSub_setValue(Cur, "Sub", v, subs, <<>>), "setValue",
                  "Sub", {v})

ReXLinkSetValue ==
    /\ Live("XLink")
    /\ \E v \in {"B", "D"}, subs \in SeqsUpTo(ReentrantSubs, MaxSubs) :
           /\ Keeps
           /\ Set(XLink_setValue(Cur, openDocs, "XLink", v, subs, <<>>),
                  "setValue", "XLink", {v})

ReUpdateElementReferences ==
    \E feature \in {"C", "B"}, reverse \in BOOLEAN, r \in ReentrantAnswers,
       cb \in HookEffects, stale \in BOOLEAN :
        \E order \in Orders({p \in ReentrantProps :
                                <<feature, p>> \in ElementRefMap}) :
            LET W == updateElementReferences(Cur, alive, openDocs, order,
                         feature, reverse, r, cb, stale)
            IN /\ Do([W.S EXCEPT !.call =
                         [op |-> "updateElementReferences",
                          feature |-> feature,
                          snapshot |-> SeqToSet(order),
                          visited |-> W.visited,
                          destroyed |-> W.destroyed,
                          unregistered |-> W.unregistered]])
               /\ alive' = W.live
               /\ UNCHANGED <<destroy, openDocs>>

NextReentrant ==
    \/ ReSubSetValue
    \/ ReXLinkSetValue
    \/ ReUpdateElementReferences

SpecReentrant == Init /\ [][NextReentrant]_vars

\* C32: updateElementReferences visits exactly the properties of its
\* snapshot that no hook has destroyed or unregistered before their turn,
\* and when it returns the element registry holds a pair for a property
\* exactly when the property is there and has the object in its own set
C32_SafeUnderCallbacks ==
    call.op = "updateElementReferences" =>
        /\ SeqToSet(call.visited) =
               call.snapshot \ (call.destroyed \cup call.unregistered)
        /\ \A p \in ReentrantProps, g \in Objects :
               (<<g, p>> \in ElementRefMap)
                   <=> (p \in alive /\ g \in props[p].ElementRefs)

--------------------------------------------------------------------------
\* The hooks of PropertyXLink::setValue(lValue, subs, shadows) when the
\* document of the target or the document of the owner has no file name.

\* Document::getFileName of a document that was never saved
Unsaved == <<>>

\* DocInfo::getDocPath(filename, pDoc, relative) throws "Owner document not
\* saved": it returns early only for an absolute path asked for as it is,
\* and else reads the file name docPath of the owner's document
getDocPath_throws(filename, docPath, relative) ==
    LET absolute == filename # <<>> /\ filename[1] = "/"
    IN ~(absolute /\ ~relative) /\ docPath = Unsaved

\* PropertyXLink::setValue(lValue, ...) looks for a descriptor: the target
\* is in another document than the owner, and not in the document of the
\* descriptor the property has
XLink_newDocument(S, p, lValue) ==
    /\ lValue # NULL
    /\ getDocument(lValue) # getDocument(getContainer(p))
    /\ ~(/\ S.props[p].docInfo \in DOMAIN S.DocInfoMap
         /\ S.DocInfoMap[S.props[p].docInfo].pcDoc = getDocument(lValue))

\* the exception PropertyXLink::setValue(lValue, ...) leaves with after
\* aboutToSetValue(), "none" when it runs to its end; filename is the file
\* name of the target's document and docPath the one of the owner's
XLink_setValue_exit(S, p, lValue, filename, docPath) ==
    IF ~XLink_newDocument(S, p, lValue) THEN "none"
    ELSE IF filename = Unsaved THEN "Linked document not saved"
    ELSE IF getDocPath_throws(filename, docPath, TRUE)
    THEN "Owner document not saved"
    ELSE "none"

\* PropertyXLink::setValue(lValue, ...) returns or throws before
\* aboutToSetValue()
XLink_setValue_early(S, open, p, lValue, subs) ==
    \/ S.props[p].pcLink = lValue /\ S.props[p].SubList = subs
    \/ lValue # NULL /\ (~isAttachedToDocument(lValue)
                         \/ getDocument(lValue) \notin open)
    \/ lValue = getContainer(p)

\* PropertyXLink::setValue(lValue, subs, shadows) with the file names of
\* the two documents
XLink_setValue_saved(S, open, p, lValue, subs, shadows, filename, docPath) ==
    IF XLink_setValue_early(S, open, p, lValue, subs)
    THEN XLink_setValue(S, open, p, lValue, subs, shadows)
    ELSE IF XLink_setValue_exit(S, p, lValue, filename, docPath) # "none"
    THEN Throw(XLink_aboutToSetValue(S, p))
    ELSE XLink_setValue(S, open, p, lValue, subs, shadows)

\* PropertyXLink::setValue(lValue, subs, shadows): its calls in program
\* order, up to the exception when it throws
XLink_setValue_calls(S, open, p, lValue, subs, filename, docPath) ==
    IF XLink_setValue_early(S, open, p, lValue, subs) THEN <<>>
    ELSE <<Hook("aboutToSetValue")>>
             \o (IF XLink_setValue_exit(S, p, lValue, filename, docPath)
                        # "none"
                 THEN <<>>
                 ELSE BackLinkCalls(S, p, <<S.props[p].pcLink>>, <<lValue>>)
                          \o <<Hook("assign"), Hook("hasSetValue")>>)

\* the file names a document can have at the next step: a document that has
\* been saved keeps its file name
FileNames(field, doc) ==
    IF call.op = "none" \/ call[field] = Unsaved
    THEN {Unsaved, getFileName(doc)}
    ELSE {call[field]}

MatchedSubs == {<<>>, <<<<"f">>>>}

MXLinkSetValue ==
    \E p \in ExtLinks, v \in {"B", "X", "Y", "E", NULL},
       subs \in MatchedSubs,
       filename \in FileNames("filename", "Ext"),
       docPath \in FileNames("docPath", "M") :
        /\ Keeps
        /\ Do([XLink_setValue_saved(Cur, openDocs, p, v, subs, <<>>,
                                    filename, docPath)
                  EXCEPT !.call =
                      [op |-> "setValue", prop |-> p,
                       calls |-> XLink_setValue_calls(Cur, openDocs, p, v,
                                     subs, filename, docPath),
                       exit |-> XLink_setValue_exit(Cur, p, v, filename,
                                                    docPath),
                       filename |-> filename, docPath |-> docPath]])

\* a second document is created or opened
MNewDocument ==
    /\ "Ext" \notin openDocs
    /\ openDocs' = openDocs \cup {"Ext"}
    /\ \E filename \in FileNames("filename", "Ext"),
          docPath \in FileNames("docPath", "M") :
           Do([Cur EXCEPT !.call =
                   [op |-> "newDocument", prop |-> NULL, calls |-> <<>>,
                    exit |-> "none",
                    filename |-> filename, docPath |-> docPath]])
    /\ UNCHANGED <<alive, destroy>>

NextMatched ==
    \/ MXLinkSetValue
    \/ MNewDocument

SpecMatched == Init /\ [][NextMatched]_vars

HooksIn(c, e) == {i \in 1..Len(c) : c[i].ev = e}

\* C33: every aboutToSetValue fired by PropertyXLink::setValue(target,
\* subs) is matched by exactly one hasSetValue before control leaves the
\* setter, also when the setter throws because the target's document or
\* the owner's document is unsaved
C33_HooksMatched ==
    call.op = "setValue" =>
        /\ Cardinality(HooksIn(call.calls, "aboutToSetValue"))
               = Cardinality(HooksIn(call.calls, "hasSetValue"))
        /\ \A i \in HooksIn(call.calls, "aboutToSetValue") :
               \E j \in HooksIn(call.calls, "hasSetValue") : j > i

--------------------------------------------------------------------------
\* PropertyLinkBase::breakLinks(link, objs, clear) over the properties of
\* the owners A (Link, List, Sub) and E (SubList), whose lists may hold
\* null entries left by setSize.

BreakProps == <<"Link", "List", "Sub", "SubList">>

\* obj->getPropertyList(props), the reference properties of obj
getPropertyList(obj) ==
    SelectSeq(BreakProps, LAMBDA p : p \in alive /\ getContainer(p) = obj)

\* linkProp->breakLink(link, clear), by the class of the property
LinkBase_breakLink(S, open, p, obj, clear) ==
    CASE p \in LinkIds -> Link_breakLink(S, p, obj, clear)
      [] p \in ListIds -> LinkList_breakLink(S, p, obj, clear)
      [] p \in SubIds -> LinkSub_breakLink(S, p, obj, clear)
      [] p \in SubListIds -> LinkSubList_breakLink(S, p, obj, clear)
      [] p \in XLinkIds -> XLink_breakLink(S, open, p, obj, clear)

\* breakLink on each property of todo in turn; an exception of one ends
\* the walk
RECURSIVE breakLinkEach(_, _, _, _, _)
breakLinkEach(S, open, todo, link, clear) ==
    IF todo = <<>> \/ S.thrown THEN S
    ELSE breakLinkEach(LinkBase_breakLink(S, open, Head(todo), link, clear),
                       open, Tail(todo), link, clear)

\* DocInfo::breakLinks: the links of the descriptors of obj's document that
\* point to obj (or are owned by it, with clear) and have no parent
\* property
RECURSIVE DocInfo_breakLinks(_, _, _, _, _)
DocInfo_breakLinks(S, open, obj, clear, done) ==
    LET hits == {l \in PropIds \ done :
                    /\ \E path \in DOMAIN S.DocInfoMap :
                           /\ S.DocInfoMap[path].pcDoc = getDocument(obj)
                           /\ l \in S.DocInfoMap[path].links
                    /\ \/ S.props[l].pcLink = obj
                       \/ clear /\ getContainer(l) = obj
                    /\ parentProp(l) = NULL}
        l == CHOOSE h \in hits : TRUE
    IN IF hits = {} \/ S.thrown THEN S
       ELSE DocInfo_breakLinks(XLink_breakLink(S, open, l, obj, clear),
                               open, obj, clear, done \cup {l})

\* the loop of PropertyLinkBase::breakLinks over objs
RECURSIVE breakLinksOf(_, _, _, _, _)
breakLinksOf(S, open, link, objs, clear) ==
    IF objs = <<>> \/ S.thrown THEN S
    ELSE breakLinksOf(breakLinkEach(S, open, getPropertyList(Head(objs)),
                                    link, clear),
                      open, link, Tail(objs), clear)

\* PropertyLinkBase::breakLinks
breakLinks(S, open, link, objs, clear) ==
    DocInfo_breakLinks(breakLinksOf(S, open, link, objs, clear), open, link,
                       clear, {})

BreakTargets == {"B", "C"}

NLinkSetValue ==
    \E v \in {"B", NULL} : Keeps /\ Do(Link_setValue(Cur, "Link", v))

NListSetValues ==
    \E v \in SeqsUpTo(BreakTargets, MaxLen) :
        Keeps /\ Do(LinkList_setValues(Cur, "List", v))

\* the list is resized, by up to one entry more than setValues gives it
NListSetSize ==
    \E newSize \in 0..(MaxLen + 1) :
        Keeps /\ Do(LinkList_setSize(Cur, "List", newSize))

NSubSetValue ==
    \E v \in {"B", NULL} :
        Keeps /\ Do(LinkSub_setValue(Cur, "Sub", v, <<>>, <<>>))

NSubListSetValues ==
    \E pl \in FewPairs :
        Keeps /\ Do(LinkSubList_setValues(Cur, "SubList", Firsts(pl),
                                          Seconds(pl), <<>>))

NSubListSetSize ==
    \E newSize \in 0..MaxLen :
        Keeps /\ Do(LinkSubList_setSize(Cur, "SubList", newSize))

NBreakLinks ==
    \E link \in {"B", "A"}, objs \in {<<"A">>, <<"E">>, <<"A", "E">>},
       clear \in BOOLEAN :
        /\ Keeps
        /\ Do([breakLinks(Cur, openDocs, link, objs, clear)
                  EXCEPT !.call = [op |-> "breakLinks", link |-> link,
                                   objs |-> objs, clear |-> clear,
                                   before |-> props]])

NextBreak ==
    \/ NLinkSetValue
    \/ NListSetValues
    \/ NListSetSize
    \/ NSubSetValue
    \/ NSubListSetValues
    \/ NSubListSetSize
    \/ NBreakLinks

SpecBreak == Init /\ [][NextBreak]_vars

\* the entries of property p with value r: pairs of target and subnames
Held(p, r) ==
    CASE p \in LinkIds -> <<<<r.pcLink, <<>>>>>>
      [] p \in ListIds -> [i \in 1..Len(r.lValueList) |->
                              <<r.lValueList[i], <<>>>>]
      [] p \in SubIds -> <<<<r.pcLinkSub, r.cSubList>>>>
      [] p \in SubListIds -> [i \in 1..Len(r.lValueList) |->
                                 <<r.lValueList[i], r.lSubList[i]>>]

\* the entries p is to hold once link is broken
Broken(p, r, link, clear) ==
    IF p \in LinkIds \cup SubIds
    THEN IF Held(p, r)[1][1] = link \/ (clear /\ getContainer(p) = link)
         THEN <<<<NULL, <<>>>>>>
         ELSE Held(p, r)
    ELSE IF clear /\ getContainer(p) = link THEN <<>>
    ELSE SelectSeq(Held(p, r), LAMBDA e : e[1] # link)

BrokenProps == {p \in SeqToSet(BreakProps) :
                   getContainer(p) \in SeqToSet(call.objs)}

\* C34: after breakLinks(link, objs, clear) no reference property of an
\* owner in objs has link as a target, none of these owners is in link's
\* backlinks, the other entries of the properties are unchanged and in
\* their order, and with clear and link in objs link's own properties are
\* empty; also when a list holds null entries
C34_BreakLinksComplete ==
    call.op = "breakLinks" =>
        /\ \A p \in BrokenProps : call.link \notin TargetsOf(p)
        /\ \A o \in SeqToSet(call.objs) : o \notin backLinks[call.link]
        /\ \A p \in BrokenProps :
               Held(p, props[p])
                   = Broken(p, call.before[p], call.link, call.clear)

--------------------------------------------------------------------------
\* PropertyLinkList::find and findUsingMap on lists around the size from
\* which find answers from the cached name map.

DONT_MAP_UNDER == 10

\* an entry find can match: obj && obj->getNameInDocument()
Named(list, i, name) ==
    /\ list[i] # NULL
    /\ isAttachedToDocument(list[i])
    /\ NameOf(list[i]) = name

\* the loop of find over a list of at most DONT_MAP_UNDER entries: the
\* first entry of that name, with its index (counted from 0)
find_scan(list, name) ==
    LET hits == {i \in 1..Len(list) : Named(list, i, name)}
        first == CHOOSE i \in hits : \A j \in hits : i <= j
    IN IF hits = {} THEN [obj |-> NULL, index |-> -1]
       ELSE [obj |-> list[first], index |-> first - 1]

\* _nameMap as find (re)creates it: each name with the index of the last
\* attached entry that has it
find_nameMap(list) ==
    {<<NameOf(list[i]), i - 1>> :
        i \in {j \in 1..Len(list) :
                  /\ list[j] # NULL
                  /\ isAttachedToDocument(list[j])
                  /\ \A k \in (j + 1)..Len(list) : list[k] # list[j]}}

\* _nameMap.find(name) and the entry at the index found; an index past the
\* end reads outside the vector
find_lookup(list, map, name) ==
    LET hits == {e \in map : e[1] = name}
        it == CHOOSE e \in hits : TRUE
    IN IF hits = {} THEN [obj |-> NULL, index |-> -1]
       ELSE [obj |-> IF it[2] < Len(list) THEN list[it[2] + 1]
                     ELSE "garbage",
             index |-> it[2]]

\* the map find looks the name up in
find_map(list, map) ==
    IF map = {} \/ Cardinality(map) > Len(list) THEN find_nameMap(list)
    ELSE map

\* PropertyLinkList::find(name, pindex): the property with its cache, the
\* entry returned and the index reported (-1: none)
LinkList_find(S, p, name) ==
    LET list == S.props[p].lValueList
        map == find_map(list, S.props[p].nameMap)
    IN IF Len(list) <= DONT_MAP_UNDER
       THEN [S |-> S, out |-> find_scan(list, name)]
       ELSE [S |-> [S EXCEPT !.props[p].nameMap = map],
             out |-> find_lookup(list, map, name)]

\* PropertyLinkList::findUsingMap(name, pindex)
LinkList_findUsingMap(S, p, name) ==
    IF Cardinality(S.props[p].nameMap) = Len(S.props[p].lValueList)
    THEN [S |-> S,
          out |-> find_lookup(S.props[p].lValueList, S.props[p].nameMap,
                              name)]
    ELSE LinkList_find(S, p, name)

\* lists on both sides of DONT_MAP_UNDER, with an entry held several times
FindLists ==
    {<<"B", "C">>,
     <<"C">> \o Rep(DONT_MAP_UNDER + 1, "B")}

FindSizes == {1, DONT_MAP_UNDER, DONT_MAP_UNDER + 1}

FindNames == {NameOf("B"), NameOf("C"), NameOf("D")}

Found(R, op, name) ==
    Do([R.S EXCEPT !.call = [op |-> op, name |-> name, obj |-> R.out.obj,
                             index |-> R.out.index]])

FListSetValues ==
    \E v \in FindLists : Keeps /\ Do(LinkList_setValues(Cur, "List", v))

FListSet1Value ==
    \E idx \in {-1, 0}, value \in {"D"} :
        /\ Keeps
        /\ idx = -1 => Len(props["List"].lValueList) < DONT_MAP_UNDER + 2
        /\ idx < Len(props["List"].lValueList)
        /\ Do(LinkList_set1Value(Cur, "List", idx, value))

FListSetSize ==
    \E newSize \in FindSizes :
        Keeps /\ Do(LinkList_setSize(Cur, "List", newSize))

FListSetSizeDef ==
    \E newSize \in FindSizes \ {1}, def \in {"D"} :
        Keeps /\ Do(LinkList_setSizeDef(Cur, "List", newSize, def))

FListFind ==
    \E name \in FindNames :
        Keeps /\ Found(LinkList_find(Cur, "List", name), "find", name)

FListFindUsingMap ==
    \E name \in FindNames :
        Keeps /\ Found(LinkList_findUsingMap(Cur, "List", name),
                       "findUsingMap", name)

NextFind ==
    \/ FListSetValues
    \/ FListSet1Value
    \/ FListSetSize
    \/ FListSetSizeDef
    \/ FListFind
    \/ FListFindUsingMap

SpecFind == Init /\ [][NextFind]_vars

\* C35: find(name) returns an entry exactly when some attached entry of
\* the list has that name, and the index it reports holds an entry of that
\* name, for lists of every size and after any sequence of setValues,
\* set1Value, setSize(n) and setSize(n, def)
C35_FindIsLinearScan ==
    call.op = "find" =>
        LET list == props["List"].lValueList
        IN /\ call.obj # NULL
                  <=> \E i \in 1..Len(list) : Named(list, i, call.name)
           /\ call.obj # NULL
                  => /\ call.index \in 0..(Len(list) - 1)
                     /\ Named(list, call.index + 1, call.name)
                     /\ list[call.index + 1] = call.obj

--------------------------------------------------------------------------
\* PropertyXLinkSubList::set1Value(idx, value, SubList)

\* what `it->setValue(...)` does when `it` is _Links.end(): the build may
\* stop the process or write through the stray iterator
EndOutcomes == {"crash", "stray"}

\* where set1Value goes for idx on a list of size links: it rejects idx,
\* appends, sets the link at idx, or walks to _Links.end()
set1Value_access(idx, size) ==
    IF idx < -1 \/ idx > size THEN "index out of bound"
    ELSE IF idx < 0 \/ idx + 1 = size THEN "append"
    ELSE IF idx = size THEN "end"
    ELSE "position"

\* PropertyXLinkSubList::set1Value; end is the outcome of the build when
\* the iterator is _Links.end()
XLinkSubList_set1Value(S, open, p, idx, value, SubList, end) ==
    LET links == S.props[p].Links
        access == set1Value_access(idx, Len(links))
        l == XSubList_newLink(S, p, value)
    IN CASE access = "index out of bound" -> Throw(S)
         [] access = "append" ->
                IF SubList = <<>>
                THEN XLinkSubList_addValue(S, open, p, value, SubList, FALSE)
                ELSE XLink_setValue(
                         [S EXCEPT !.props[p].Links = Append(@, l)],
                         open, l, value, <<>>, <<>>)
         [] access = "end" -> IF end = "crash" THEN Throw(S) ELSE S
         [] access = "position" ->
                XLink_setValue(S, open, links[idx + 1], value, SubList, <<>>)

Set1Values == {"B", "D", NULL}
Set1Subs == {<<>>, <<<<"f">>>>}

\* a step of the property: its links live exactly while in _Links
DoSet1(R, c) ==
    /\ Do([R EXCEPT !.call = c])
    /\ alive' = (alive \ XSubChildIds) \cup SeqToSet(R.props["XSubList"].Links)
    /\ UNCHANGED <<destroy, openDocs>>

YXSubListSet1Value ==
    \E idx \in -2..(Len(props["XSubList"].Links) + 1),
       value \in Set1Values, subs \in Set1Subs, end \in EndOutcomes :
        /\ Len(props["XSubList"].Links) <= MaxLen
        /\ DoSet1(XLinkSubList_set1Value(Cur, openDocs, "XSubList", idx,
                                         value, subs, end),
                  [op |-> "set1Value", idx |-> idx, value |-> value,
                   subs |-> subs,
                   size |-> Len(props["XSubList"].Links),
                   access |-> set1Value_access(
                                  idx, Len(props["XSubList"].Links))])

YXSubListAddValue ==
    \E value \in Set1Values, subs \in Set1Subs :
        /\ Len(props["XSubList"].Links) <= MaxLen
        /\ DoSet1(XLinkSubList_addValue(Cur, openDocs, "XSubList", value,
                                        subs, TRUE),
                  [op |-> "addValue", value |-> value, subs |-> subs])

NextSet1 ==
    \/ YXSubListSet1Value
    \/ YXSubListAddValue

SpecSet1 == Init /\ [][NextSet1]_vars

\* the link at position i (counted from 0) holds obj with the subnames
\* subs
HoldsAt(i, obj, subs) ==
    /\ i < Len(props["XSubList"].Links)
    /\ props[props["XSubList"].Links[i + 1]].pcLink = obj
    /\ props[props["XSubList"].Links[i + 1]].SubList = subs

\* C36: set1Value(idx, value, subs) that returns makes, for 0 <= idx <
\* size, the link at idx hold value with exactly subs and leaves the
\* number of links unchanged; for idx = -1 it adds value with exactly
\* subs; and an idx it does not reject is an existing position or the
\* append position
C36_Set1ValueAtPosition ==
    (call.op = "set1Value" /\ ~result.thrown) =>
        /\ (call.idx >= 0 /\ call.idx < call.size)
               => /\ Len(props["XSubList"].Links) = call.size
                  /\ HoldsAt(call.idx, call.value, call.subs)
        /\ call.idx = -1
               => \E i \in 0..(Len(props["XSubList"].Links) - 1) :
                      HoldsAt(i, call.value, call.subs)
        /\ call.access \in {"position", "append"}

--------------------------------------------------------------------------
\* getLinks with a subname output, of PropertyLinkSubList and
\* PropertyXLinkSubList

\* the pairs (obj, sub) PropertyXLinkSubList::getLinks pushes for the link
\* l: one for each subname of an attached target, one with "" when it has
\* none
XLink_linkPairs(S, l, newStyle) ==
    LET pr == S.props[l]
        subnames == getSubValues(pr.SubList, pr.ShadowSubList, newStyle)
    IN IF pr.pcLink = NULL \/ ~isAttachedToDocument(pr.pcLink) THEN <<>>
       ELSE IF subnames = <<>> THEN <<<<pr.pcLink, <<>>>>>>
       ELSE [i \in 1..Len(subnames) |-> <<pr.pcLink, subnames[i]>>]

RECURSIVE XSubList_pairs(_, _, _)
XSubList_pairs(S, links, newStyle) ==
    IF links = <<>> THEN <<>>
    ELSE XLink_linkPairs(S, Head(links), newStyle)
             \o XSubList_pairs(S, Tail(links), newStyle)

\* PropertyXLinkSubList::getLinks(objs, all, &subs, newStyle)
XLinkSubList_getLinksSubs(S, p, all, newStyle) ==
    LET pairs == XSubList_pairs(S, S.props[p].Links, newStyle)
    IN IF all \/ ~Hidden(S, p)
       THEN [objs |-> Firsts(pairs), subs |-> Seconds(pairs)]
       ELSE [objs |-> <<>>, subs |-> <<>>]

\* PropertyLinkSubList::getLinks(objs, all, &subs, newStyle)
LinkSubList_getLinksSubs(S, p, all, newStyle) ==
    IF all \/ ~Hidden(S, p)
    THEN [objs |-> AttachedOf(S.props[p].lValueList),
          subs |-> getSubValues(S.props[p].lSubList,
                                S.props[p].ShadowSubList, newStyle)]
    ELSE [objs |-> <<>>, subs |-> <<>>]

ZSubListSetValue ==
    \E lValue \in {"B", NULL}, SubList \in SubLists :
        Keeps /\ Do(LinkSubList_setValue(Cur, "SubList", lValue, SubList))

ZSubListSetValues ==
    \E pl \in PairLists :
        Keeps /\ Do(LinkSubList_setValues(Cur, "SubList", Firsts(pl),
                                          Seconds(pl), <<>>))

ZSubListSetSize ==
    \E newSize \in 0..MaxLen :
        Keeps /\ Do(LinkSubList_setSize(Cur, "SubList", newSize))

ZXSubListAddValue ==
    \E value \in {"B", "D"}, subs \in Set1Subs :
        /\ Len(props["XSubList"].Links) < MaxLen
        /\ DoSet1(XLinkSubList_addValue(Cur, openDocs, "XSubList", value,
                                        subs, TRUE),
                  NoCall)

\* a link of the list loses its target
ZXSubListBreakValue ==
    \E i \in 1..Len(props["XSubList"].Links) :
        DoSet1(XLink_setValue(Cur, openDocs, props["XSubList"].Links[i],
                              NULL, <<>>, <<>>),
               NoCall)

ZGetLinks ==
    \E newStyle \in BOOLEAN :
        /\ Keeps
        /\ \/ Do([Cur EXCEPT !.call =
                     [op |-> "getLinks", prop |-> "SubList",
                      newStyle |-> newStyle,
                      out |-> LinkSubList_getLinksSubs(Cur, "SubList", TRUE,
                                                       newStyle)]])
           \/ Do([Cur EXCEPT !.call =
                     [op |-> "getLinks", prop |-> "XSubList",
                      newStyle |-> newStyle,
                      out |-> XLinkSubList_getLinksSubs(Cur, "XSubList",
                                                        TRUE, newStyle)]])

NextAligned ==
    \/ ZSubListSetValue
    \/ ZSubListSetValues
    \/ ZSubListSetSize
    \/ ZXSubListAddValue
    \/ ZXSubListBreakValue
    \/ ZGetLinks

SpecAligned == Init /\ [][NextAligned]_vars

\* the subnames recorded with the target at list position i of SubList
SubAt(i, newStyle) ==
    getSubNameWithStyle(props["SubList"].lSubList[i],
                        props["SubList"].ShadowSubList[i], newStyle)

\* the positions of SubList that hold an attached target, in order
AttachedAt ==
    SelectSeq([i \in 1..Len(props["SubList"].lValueList) |-> i],
              LAMBDA i : /\ props["SubList"].lValueList[i] # NULL
                         /\ isAttachedToDocument(
                                props["SubList"].lValueList[i]))

\* C37: getLinks of a sub-list variant called with a subname output gives
\* targets and subnames of equal length, the i-th subname being the one of
\* the i-th target, also when the property holds entries with a null
\* target
C37_SubsAlignedWithTargets ==
    call.op = "getLinks" =>
        /\ Len(call.out.objs) = Len(call.out.subs)
        /\ call.prop = "SubList"
               => \A i \in 1..Len(call.out.objs) :
                      /\ i <= Len(AttachedAt)
                      /\ call.out.objs[i]
                             = props["SubList"].lValueList[AttachedAt[i]]
                      /\ call.out.subs[i]
                             = SubAt(AttachedAt[i], call.newStyle)
        /\ call.prop = "XSubList"
               => \A i \in 1..Len(call.out.objs) :
                      \E l \in SeqToSet(props["XSubList"].Links) :
                          /\ props[l].pcLink = call.out.objs[i]
                          /\ \/ call.out.subs[i] \in
                                    SeqToSet(getSubValues(
                                        props[l].SubList,
                                        props[l].ShadowSubList,
                                        call.newStyle))
                             \/ /\ props[l].SubList = <<>>
                                /\ call.out.subs[i] = <<>>

--------------------------------------------------------------------------
\* The two registries as maps from a key to the set of its properties
\* (_LabelMap, _ElementRefMap), kept next to the properties' own sets
\* (_LabelRefs, _ElementRefs) while properties are set and destroyed.

\* a registry that keeps its keys although their sets are empty
Registry_erase_keepsKey(map, refs, p) ==
    [k \in DOMAIN map |-> IF k \in refs THEN map[k] \ {p} ELSE map[k]]

\* the loop of unregisterLabelReferences and unregisterElementReference:
\* the property leaves the set of each of its keys, and a key whose set is
\* empty is erased
Registry_erase(map, refs, p) ==
    [k \in {j \in DOMAIN map : j \notin refs \/ map[j] \ {p} # {}} |->
        IF k \in refs THEN map[k] \ {p} ELSE map[k]]

\* the insertions of registerLabelReferences and
\* _registerElementReference: map[key].insert(this) for each key that is
\* new in the property's own set
Registry_insert(map, refs, p) ==
    [k \in DOMAIN map \cup refs |->
        (IF k \in DOMAIN map THEN map[k] ELSE {})
            \cup (IF k \in refs THEN {p} ELSE {})]

\* the pairs (key, property) of a registry
RegistryPairs(map) == UNION {{<<k, p>> : p \in map[k]} : k \in DOMAIN map}

NoRegistry == [labels |-> <<>>, elements |-> <<>>]

\* the registries before the step
Registries == IF call.op = "none" THEN NoRegistry ELSE call.maps

\* a step on property p that took S to R: p leaves the sets of the keys it
\* had and enters the sets of the keys it has now
Registered(S, R, p) ==
    [labels |->
         Registry_insert(
             Registry_erase(Registries.labels, S.props[p].LabelRefs, p),
             R.props[p].LabelRefs, p),
     elements |->
         Registry_insert(
             Registry_erase(Registries.elements, S.props[p].ElementRefs, p),
             R.props[p].ElementRefs, p)]

MirrorProps == {"Sub", "SubList", "XLink"}
MirrorSubNames == {<<"f">>, <<"$", "x", ".", "f">>}

Mirrored(R, op, p) ==
    [R EXCEPT !.call = [op |-> op, prop |-> p,
                        had |-> [labels |-> props[p].LabelRefs,
                                 elements |-> props[p].ElementRefs],
                        maps |-> Registered(Cur, R, p)]]

PSubSetValue ==
    \E v \in {"B", NULL}, subs \in SeqsUpTo(MirrorSubNames, MaxSubs) :
        /\ Live("Sub") /\ Keeps
        /\ Do(Mirrored(LinkSub_setValue(Cur, "Sub", v, subs, <<>>),
                       "setValue", "Sub"))

PSubListSetValues ==
    \E pl \in SeqsUpTo({"B"} \X MirrorSubNames, MaxSubs) :
        /\ Live("SubList") /\ Keeps
        /\ Do(Mirrored(LinkSubList_setValues(Cur, "SubList", Firsts(pl),
                                             Seconds(pl), <<>>),
                       "setValues", "SubList"))

PXLinkSetValue ==
    \E v \in {"B", NULL}, subs \in SeqsUpTo(MirrorSubNames, MaxSubs) :
        /\ Live("XLink") /\ Keeps
        /\ Do(Mirrored(XLink_setValue(Cur, openDocs, "XLink", v, subs, <<>>),
                       "setValue", "XLink"))

PDestruct ==
    \E p \in MirrorProps :
        /\ Live(p)
        /\ Destruct(p, Mirrored(
                           CASE p = "Sub" -> LinkSub_destruct(Cur, p)
                             [] p = "SubList" -> LinkSubList_destruct(Cur, p)
                             [] p = "XLink" -> XLink_destruct(Cur, p),
                           "destruct", p))

NextMirror ==
    \/ PSubSetValue
    \/ PSubListSetValues
    \/ PXLinkSetValue
    \/ PDestruct

SpecMirror == Init /\ [][NextMirror]_vars

\* property p is in the set the registry map keeps for key k
InRegistry(map, k, p) == k \in DOMAIN map /\ p \in map[k]

\* C38: after a property is destroyed or has its value replaced, a
\* property is in the label registry's set for a label exactly when the
\* label is in its own label set, and in the element registry's set for an
\* object exactly when the object is in its own element set; a destroyed
\* property is in no registry set, and no registry key has an empty set
C38_RegistriesMirrorProperties ==
    call.op \in {"setValue", "setValues", "destruct"} =>
        /\ RegistryPairs(call.maps.labels) = LabelMap
        /\ RegistryPairs(call.maps.elements) = ElementRefMap
        /\ \A p \in MirrorProps :
               /\ \A l \in DOMAIN call.maps.labels \cup props[p].LabelRefs :
                      InRegistry(call.maps.labels, l, p)
                          <=> (p \in alive /\ l \in props[p].LabelRefs)
               /\ \A g \in Objects :
                      InRegistry(call.maps.elements, g, p)
                          <=> (p \in alive /\ g \in props[p].ElementRefs)
        /\ \A l \in DOMAIN call.maps.labels : call.maps.labels[l] # {}
        /\ \A g \in DOMAIN call.maps.elements : call.maps.elements[g] # {}

\* a property that was registered under a label and for an object has been
\* destroyed while another one is still registered under the same label
C38_Witness ==
    /\ call.op = "destruct"
    /\ call.had.labels # {}
    /\ call.had.elements # {}
    /\ \E l \in call.had.labels : l \in DOMAIN call.maps.labels
    /\ \E g \in call.had.elements : g \notin DOMAIN call.maps.elements

--------------------------------------------------------------------------
\* The external document is saved, under its path or under a new one.

\* the second path the external document can be saved under
NewFile == <<"/", "q">>

SaveFiles == {ExtFile, NewFile}

\* DocInfo::filePath
DocInfo_filePath(S, path) == S.DocInfoMap[path].myPath

\* DocInfo::slotFinishRestoreDocument for a document whose file name is
\* filename
DocInfo_slotFinishRestoreNamed(S, open, path, doc, filename) ==
    IF S.DocInfoMap[path].pcDoc # NULL THEN S
    ELSE IF path # <<>> /\ getFullPath(filename) = path
    THEN DocInfo_attach(S, open, path, doc)
    ELSE S

\* DocInfo::slotSaveDocument, the move in the map:
\* _DocInfoMap.insert(docPath, me); _DocInfoMap.erase(myPos); myPos = ...
\* The properties that point to the descriptor point to it as before.
DocInfo_moveKey(S, path, docPath) ==
    [S EXCEPT !.DocInfoMap =
                  [q \in (DOMAIN @ \ {path}) \cup {docPath} |->
                      IF q = docPath THEN @[path] ELSE @[q]],
              !.props =
                  [q \in DOMAIN @ |->
                      IF "docInfo" \in DOMAIN @[q] /\ @[q].docInfo = path
                      THEN [@[q] EXCEPT !.docInfo = docPath]
                      ELSE @[q]]]

\* DocInfo::slotSaveDocument, the loop over the links swapped out:
\* DocInfo::get(filename, owner->getDocument(), link, objectName)
RECURSIVE DocInfo_getAgain(_, _, _, _)
DocInfo_getAgain(S, open, filename, todo) ==
    IF todo = {} THEN S
    ELSE LET link == CHOOSE l \in todo : TRUE
         IN DocInfo_getAgain(
                DocInfo_get(S, open, filename, link,
                            S.props[link].objectName),
                open, filename, todo \ {link})

\* DocInfo::slotSaveDocument of the descriptor at path, for the document
\* doc saved as filename
DocInfo_slotSaveDocument(S, open, path, doc, filename) ==
    LET docPath == getFullPath(filename)
        tmp == S.DocInfoMap[path].links
    IN IF S.DocInfoMap[path].pcDoc = NULL
       THEN DocInfo_slotFinishRestoreNamed(S, open, path, doc, filename)
       ELSE IF S.DocInfoMap[path].pcDoc # doc THEN S
       ELSE IF path # <<>> /\ path = docPath THEN S
       ELSE IF docPath \in DOMAIN S.DocInfoMap
       THEN DocInfo_slotDeleteDocument(S, path, doc)
       ELSE [DocInfo_getAgain(
                 [DocInfo_moveKey(S, path, docPath)
                     EXCEPT !.DocInfoMap[docPath].links = {}],
                 open, filename, tmp)
                EXCEPT !.ret = NULL]

\* signalSaveDocument(doc) delivered to the descriptors in the order todo
RECURSIVE SaveDocument(_, _, _, _, _)
SaveDocument(S, open, doc, filename, todo) ==
    IF todo = <<>> THEN S
    ELSE SaveDocument(
             IF Head(todo) \in DOMAIN S.DocInfoMap
             THEN DocInfo_slotSaveDocument(S, open, Head(todo), doc, filename)
             ELSE S,
             open, doc, filename, Tail(todo))

\* the orders in which the descriptors of the map can be connected to a
\* signal
SlotOrders(map) ==
    {s \in SeqsUpTo(DOMAIN map, Cardinality(DOMAIN map)) :
        Len(s) = Cardinality(DOMAIN map) /\ SeqToSet(s) = DOMAIN map}

\* the file the external document was last saved to or opened from
FileOfExt == IF "filename" \in DOMAIN call THEN call.filename ELSE ExtFile

\* the step made is recorded in call, with the map it found and the file
\* name the external document has after it
SaveStep(R, op, filename) ==
    Do([R EXCEPT !.call = [op |-> op, filename |-> filename,
                           before |-> DocInfoMap]])

\* the setters look the document up by its file name /p
SvXLinkSetValueByName ==
    \E p \in ExtLinks, filename \in SaveFiles, name \in {<<"X">>, <<"Z">>} :
        /\ FileOfExt = ExtFile
        /\ Keeps
        /\ SaveStep(XLink_setValueByName(Cur, openDocs, p, filename, name,
                                      <<>>, <<>>),
                 "setValue", FileOfExt)

SvXLinkSetValue ==
    \E p \in ExtLinks, v \in {"X", NULL} :
        /\ FileOfExt = ExtFile
        /\ Keeps
        /\ v # NULL => getDocument(v) \in openDocs
        /\ SaveStep(XLink_setValue(Cur, openDocs, p, v, <<>>, <<>>),
                 "setValue", FileOfExt)

\* the external document is opened from /p
SvOpenDocument ==
    /\ "Ext" \notin openDocs
    /\ openDocs' = openDocs \cup {"Ext"}
    /\ SaveStep(FinishRestoreDocument(Cur, openDocs \cup {"Ext"}, "Ext",
                                   DOMAIN DocInfoMap),
             "finishRestore", ExtFile)
    /\ UNCHANGED <<alive, destroy>>

\* the external document is saved as filename
SvSaveDocument ==
    \E filename \in SaveFiles, order \in SlotOrders(DocInfoMap) :
        /\ "Ext" \in openDocs
        /\ Keeps
        /\ SaveStep(SaveDocument(Cur, openDocs, "Ext", filename, order),
                 "saveDocument", filename)

\* the external document is closed; its file at /p is what is opened next
SvCloseDocument ==
    /\ "Ext" \in openDocs
    /\ openDocs' = openDocs \ {"Ext"}
    /\ LET R == DeleteDocument(Cur, "Ext", DOMAIN DocInfoMap)
       IN SaveStep([R EXCEPT !.backLinks =
                     [o \in Objects |->
                         IF getDocument(o) = "Ext" THEN {} ELSE @[o]]],
                "deleteDocument", ExtFile)
    /\ UNCHANGED <<alive, destroy>>

NextSave ==
    \/ SvXLinkSetValueByName
    \/ SvXLinkSetValue
    \/ SvOpenDocument
    \/ SvSaveDocument
    \/ SvCloseDocument

SpecSave == Init /\ [][NextSave]_vars

\* the descriptors attached to the external document when it was saved
\* under another path than theirs
SavedAs ==
    {k \in DOMAIN call.before :
        call.before[k].pcDoc = "Ext" /\ k # getFullPath(call.filename)}

\* after the save the descriptor is in the map under the new path only,
\* with the references it had
MovedTo(k, docPath) ==
    /\ docPath \in DOMAIN DocInfoMap
    /\ k \notin DOMAIN DocInfoMap
    /\ DocInfoMap[docPath].pcDoc = "Ext"
    /\ call.before[k].links \subseteq DocInfoMap[docPath].links
    /\ \A l \in call.before[k].links : props[l].docInfo = docPath

\* the new path was owned: the descriptor keeps its key and its
\* references, which are detached
DetachedAt(k) ==
    /\ k \in DOMAIN DocInfoMap
    /\ DocInfoMap[k].pcDoc = NULL
    /\ call.before[k].links \subseteq DocInfoMap[k].links
    /\ \A l \in call.before[k].links :
           props[l].docInfo = k /\ props[l].pcLink = NULL

C39_Moved ==
    call.op = "saveDocument" =>
        \A k \in SavedAs :
            IF getFullPath(call.filename) \in DOMAIN call.before
            THEN DetachedAt(k)
            ELSE MovedTo(k, getFullPath(call.filename))

\* C39: when an attached external document is saved under a new path, its
\* descriptor is afterwards in the path map under the new absolute path
\* and under no other key, with every reference that was registered with
\* it, and the path it reports (filePath()) equals its key in the map; if
\* another descriptor owns the new path, the references are detached and
\* not lost
C39_SavedUnderNewPath ==
    /\ C39_Moved
    /\ call.op = "saveDocument" =>
           \A k \in DOMAIN DocInfoMap :
               DocInfoMap[k].pcDoc = "Ext" => DocInfo_filePath(Cur, k) = k

--------------------------------------------------------------------------
\* The mapped list PropertyLinkSubList::Restore leaves, for records with
\* entries whose target is not in the document.

\* PropertyLinkSubList::Restore, the list it swaps into _mapped: the loop
\* index i (from 0) of every entry of the record that has a target and
\* carries the attribute mapped
LinkSubList_Restore_mapped(open, p, rec) ==
    LET count == rec.attrs["count"]
        objs == Resolved(open, getDocument(getContainer(p)),
                         SubSeq(rec.children, 1, count), "obj")
    IN SelectSeq([i \in 1..count |-> i - 1],
                 LAMBDA i : /\ objs[i + 1] # NULL
                            /\ "mapped" \in DOMAIN rec.children[i + 1])

\* the entries of a record: a target that is there (B, C) or not (Z), a
\* subname, and the attribute mapped or not
MappedEntries ==
    {("obj" :> n) @@ ("sub" :> <<"f">>) @@ m :
        n \in {<<"B">>, <<"C">>, <<"Z">>},
        m \in {NoAttrs, "mapped" :> <<"1">>}}

MappedRecords ==
    {[tag |-> "LinkSubList", attrs |-> "count" :> Len(c), children |-> c] :
        c \in SeqsUpTo(MappedEntries, MaxLen + 1)}

ASubListRestore ==
    \E p \in SubListIds, rec \in MappedRecords :
        /\ Keeps
        /\ Do([LinkSubList_Restore(Cur, openDocs, p, rec)
                  EXCEPT !.call =
                      [op |-> "LinkSubList::Restore", prop |-> p,
                       rec |-> rec,
                       mapped |-> LinkSubList_Restore_mapped(openDocs, p,
                                                             rec)]])

NextMapped ==
    \/ ASubListRestore

SpecMapped == Init /\ [][NextMapped]_vars

\* the entries of the record that were restored, by their place in the
\* record (from 1), in the order of the restored list
RestoredFrom(p, rec) ==
    SelectSeq([i \in 1..Len(rec.children) |-> i],
              LAMBDA i : getObject(openDocs, getDocument(getContainer(p)),
                                   getName(rec.children[i]["obj"])) # NULL)

\* C40: after PropertyLinkSubList::Restore every index in the mapped list
\* of the property is the index of a restored entry, the one that carried
\* the mapped attribute in the record, also when earlier entries of the
\* record were dropped; none points at another entry or past the end
C40_MappedIndexesFollowRestored ==
    call.op = "LinkSubList::Restore" =>
        LET from == RestoredFrom(call.prop, call.rec)
        IN \A k \in 1..Len(call.mapped) :
               /\ call.mapped[k] < Len(props[call.prop].lValueList)
               /\ call.mapped[k] + 1 <= Len(from)
               /\ "mapped" \in DOMAIN call.rec.children[from[call.mapped[k] + 1]]

====
